---- MODULE Spec2Model ----
(***************************************************************************)
(* Lowering of a HIR body to MIR (crates/hir-ty/src/mir/lower.rs).         *)
(*                                                                         *)
(* lower_to_mir is a function of (owner, body, infer, root_expr).  The     *)
(* model keeps the lowering context MirLowerCtx as a record that every     *)
(* lowering routine takes and returns; each routine is an operator that    *)
(* follows the Rust function of the same name.                             *)
(*                                                                         *)
(* Representation                                                          *)
(*   ExprId          a path in the expression tree (<<>> is the root)      *)
(*   Expr            [k, l, u, adj, kids]: kind, label / resolution tag,   *)
(*                   numeric attribute, adjustments, children              *)
(*   BasicBlockId    index into ctx.basic_blocks; 0 is Option::None        *)
(*   LocalId         0-based, local i is ctx.locals[i + 1]                 *)
(*   Option<T>       <<>> or <<x>> for records                             *)
(*   Result<..>      [c, err, b, v]: context, error ("" = Ok), block       *)
(*                   (0 = None), place or operand                          *)
(*                                                                         *)
(* ctx.trace and ctx.writes are history fields: they record which          *)
(* expressions were lowered, what each returned, and every write to a      *)
(* block, so that properties of the recursion can be stated on the final   *)
(* state.                                                                  *)
(***************************************************************************)
EXTENDS Naturals, Sequences, FiniteSets, TLC

VARIABLES pc, owner, body, infer, ctx, result

vars == <<pc, owner, body, infer, ctx, result>>

(***************************************************************************)
(* Bounds of the explored inputs.                                          *)
(***************************************************************************)
MaxNodes == 4

MaxParams == 2

MaxBindings == 2

MaxMismatches == 1

(***************************************************************************)
(* MIR data                                                                *)
(***************************************************************************)
Place(local) == [local |-> local, projection |-> <<>>]

NoPlace == [local |-> 0, projection |-> <<"none">>]

return_slot == 0

Copy(p) == [o |-> "Copy", place |-> p, c |-> ""]

Constant(x) == [o |-> "Constant", place |-> NoPlace, c |-> x]

NoTerminator ==
    [t |-> "None", target |-> 0, otherwise |-> 0, ops |-> <<>>, dest |-> NoPlace]

Goto(target) ==
    [t |-> "Goto", target |-> target, otherwise |-> 0, ops |-> <<>>, dest |-> NoPlace]

\* SwitchTargets::static_if(1, then, else)
SwitchInt(discr, then, else) ==
    [t |-> "SwitchInt", target |-> then, otherwise |-> else, ops |-> <<discr>>,
     dest |-> NoPlace]

Call(args, destination, target) ==
    [t |-> "Call", target |-> target, otherwise |-> 0, ops |-> args,
     dest |-> destination]

Return == [t |-> "Return", target |-> 0, otherwise |-> 0, ops |-> <<>>, dest |-> NoPlace]

Unreachable ==
    [t |-> "Unreachable", target |-> 0, otherwise |-> 0, ops |-> <<>>, dest |-> NoPlace]

BasicBlock == [statements |-> <<>>, terminator |-> NoTerminator]

Rvalue(r, x, ops) == [r |-> r, x |-> x, ops |-> ops]

Use(op) == Rvalue("Use", "", <<op>>)

Assign(place, rvalue, span) ==
    [s |-> "Assign", place |-> place, rv |-> rvalue, span |-> span]

MirSpanUnknown == <<0>>

LoopBlocks(begin, end, place) == [begin |-> begin, end |-> end, place |-> place]

(***************************************************************************)
(* Results                                                                 *)
(***************************************************************************)
Ok(c, b) == [c |-> c, err |-> "", b |-> b, v |-> NoPlace]

OkV(c, b, v) == [c |-> c, err |-> "", b |-> b, v |-> v]

Err(c, e) == [c |-> c, err |-> e, b |-> 0, v |-> NoPlace]

IsErr(r) == r.err # ""

\* Ok(None)
IsNone(r) == r.err = "" /\ r.b = 0

(***************************************************************************)
(* The expression tree                                                     *)
(***************************************************************************)
Node(k, l, u, kids) == [k |-> k, l |-> l, u |-> u, adj |-> <<>>, kids |-> kids]

RECURSIVE NodeAt(_, _)
NodeAt(t, p) == IF p = <<>> THEN t ELSE NodeAt(t.kids[Head(p)], Tail(p))

\* self.body.exprs[expr_id]
Expr(c, e) == NodeAt(c.body.root, e)

Kid(e, i) == Append(e, i)

(***************************************************************************)
(* History                                                                 *)
(***************************************************************************)
\* An event: its kind, the expression it belongs to, a block, and per kind a
\* second block (a), two tags (x, y) and a place (v).
Ev(ev, e, b) == [ev |-> ev, e |-> e, b |-> b, a |-> 0, x |-> "", y |-> "", v |-> NoPlace]

\* Every event also records the number of writes and of blocks so far, the
\* current frame (f) and the label map (m).
Log(c, event) ==
    [c EXCEPT !.trace = Append(@, [ev |-> event.ev, e |-> event.e, b |-> event.b,
                                   a |-> event.a, x |-> event.x, y |-> event.y,
                                   v |-> event.v, w |-> c.writes,
                                   n |-> Len(c.basic_blocks),
                                   f |-> c.current_loop_blocks,
                                   m |-> c.labeled_loop_blocks])]

\* The begin block of the innermost frame, 0 outside every frame.
Frame(c) == IF c.current_loop_blocks = <<>> THEN 0 ELSE c.current_loop_blocks[1].begin

\* enter: expression e starts lowering in block current, towards place.
Enter(c, e, current, mode, place) ==
    Log(c, [Ev("enter", e, current) EXCEPT !.a = Frame(c), !.x = mode, !.v = place])

\* exit: the lowering of e returned Ok(r.b); an Err leaves no event.
Exit(r, e) == IF IsErr(r) THEN r ELSE [r EXCEPT !.c = Log(r.c, Ev("exit", e, r.b))]

(***************************************************************************)
(* Context operations                                                      *)
(***************************************************************************)
\* The id new_basic_block returns.
new_block_id(c) == Len(c.basic_blocks) + 1

new_basic_block(c) == [c EXCEPT !.basic_blocks = Append(@, BasicBlock)]

\* The id temp returns (unsized types are not among the modelled types).
temp_id(c) == Len(c.locals)

temp(c, ty) == [c EXCEPT !.locals = Append(@, ty)]

is_unterminated(c, source) == c.basic_blocks[source].terminator.t = "None"

set_terminator(c, source, terminator) ==
    [Log(c, [Ev("set_terminator", <<>>, source) EXCEPT
                    !.a = terminator.target,
                    !.x = c.basic_blocks[source].terminator.t,
                    !.y = terminator.t])
        EXCEPT !.basic_blocks[source].terminator = terminator,
               !.writes = @ + 1]

set_goto(c, source, target) == set_terminator(c, source, Goto(target))

push_statement(c, block, statement) ==
    [c EXCEPT !.basic_blocks[block].statements = Append(@, statement),
              !.writes = @ + 1]

push_assignment(c, block, place, rvalue, span) ==
    push_statement(c, block, Assign(place, rvalue, span))

write_bytes_to_place(c, prev_block, place, cv, span) ==
    push_assignment(c, prev_block, place, Use(Constant(cv)), span)

has_adjustments(c, e) == Expr(c, e).adj # <<>>

merge_blocks(c, b1, b2) ==
    IF b1 = 0 /\ b2 = 0 THEN Ok(c, 0)
    ELSE IF b1 = 0 THEN Ok(c, b2)
    ELSE IF b2 = 0 THEN Ok(c, b1)
    ELSE LET bm == new_block_id(c)
             c1 == new_basic_block(c)
             c2 == set_goto(c1, b1, bm)
             c3 == set_goto(c2, b2, bm)
         IN  Ok(c3, bm)

\* Variant: every call makes a new end block for the frame.
current_loop_end_always_new(c) ==
    IF c.current_loop_blocks = <<>>
    THEN Err(c, "ImplementationError(Current loop access out of loop)")
    ELSE LET s == new_block_id(c)
             c1 == new_basic_block(c)
         IN  Ok([c1 EXCEPT !.current_loop_blocks[1].end = s], s)

current_loop_end(c) ==
    IF c.current_loop_blocks = <<>>
    THEN Err(c, "ImplementationError(Current loop access out of loop)")
    ELSE IF c.current_loop_blocks[1].end # 0
         THEN Ok(c, c.current_loop_blocks[1].end)
         ELSE LET s == new_block_id(c)
                  c1 == new_basic_block(c)
              IN  Ok([c1 EXCEPT !.current_loop_blocks[1].end = s], s)

\* Variant: every call gets a target block, a diverging one too.
lower_call_always_target(c, args, place, current, is_uninhabited) ==
    LET b == new_block_id(c)
        c1 == new_basic_block(c)
    IN  Ok(set_terminator(c1, current, Call(args, place, b)), b)

lower_call(c, args, place, current, is_uninhabited) ==
    LET b == IF is_uninhabited THEN 0 ELSE new_block_id(c)
        c1 == IF is_uninhabited THEN c ELSE new_basic_block(c)
    IN  Ok(set_terminator(c1, current, Call(args, place, b)), b)

(***************************************************************************)
(* Helpers outside lower.rs (mir/lower/pattern_matching.rs and             *)
(* mir/lower/as_place.rs), modelled from their interface: section 4.5 and  *)
(* section 4.4 (3) of the specification.                                   *)
(***************************************************************************)
\* pattern_match(current, None, cond_place, ty, pat, mode): (then, otherwise?).
\* An irrefutable pattern matches in the current block and has no otherwise
\* block; a refutable one tests the scrutinee with a SwitchInt that ends the
\* current block.  Returned as [c, err, b |-> then, v |-> otherwise].
pattern_match(c, current, cond_place, refutable) ==
    IF refutable = 0 THEN OkV(c, current, 0)
    ELSE LET then == new_block_id(c)
             c1 == new_basic_block(c)
             else == new_block_id(c1)
             c2 == new_basic_block(c1)
         IN  OkV(set_terminator(c2, current, SwitchInt(Copy(cond_place), then, else)),
                 then, else)

\* pattern_matching_variant(.., current, .., Some(current_else), ..) for the
\* Some(pat) test of a for loop: the failing edge goes to current_else.
pattern_matching_variant(c, cond_place, current, current_else) ==
    LET next == new_block_id(c)
        c1 == new_basic_block(c)
    IN  OkV(set_terminator(c1, current, SwitchInt(Copy(cond_place), next, current_else)),
            next, current_else)

RECURSIVE lower_expr_to_place(_, _, _, _)
RECURSIVE lower_expr_to_place_without_adjust(_, _, _, _)
RECURSIVE lower_expr_to_some_operand(_, _, _)
RECURSIVE lower_expr_as_place(_, _, _, _)
RECURSIVE lower_block_to_place(_, _, _, _)
RECURSIVE call_closure(_, _, _)

\* let r = ..: the one value of a singleton, an intermediate result bound once
Only(S) == CHOOSE v \in S : TRUE

\* The result r ends the enclosing routine: `?` on an Err, `else { return
\* Ok(None) }` on a None.
Stops(r) == IsErr(r) \/ r.b = 0

\* lower_expr_to_some_place_without_adjust: a fresh temporary receives the value.
lower_expr_to_some_place_without_adjust(c, e, prev_block) ==
    LET place == Place(temp_id(c))
        some(r) == IF Stops(r) THEN r ELSE OkV(r.c, r.b, place)
    IN  some(lower_expr_to_place_without_adjust(temp(c, "temp"), e, place, prev_block))

\* lower_expr_as_place_without_adjust: a path to a local binding is a place as
\* it stands; any other modelled expression is an rvalue, materialised in a
\* temporary when upgrade_rvalue allows it.
lower_expr_as_place_without_adjust(c, current, e, upgrade_rvalue) ==
    LET x == Expr(c, e) IN
    IF x.k = "Path" /\ x.l = "LocalBinding"
    THEN Exit(OkV(Enter(c, e, current, "as_place", NoPlace), current,
                  Place(c.binding_locals[x.u])), e)
    ELSE IF ~upgrade_rvalue THEN Err(c, "MutatingRvalue")
    ELSE lower_expr_to_some_place_without_adjust(c, e, current)

(***************************************************************************)
(* Loop frames                                                             *)
(*                                                                         *)
(* A routine is written as its steps, last step first: each step takes the *)
(* results bound so far and either returns or hands over to the next step. *)
(***************************************************************************)
\* FxHashMap::insert; the previous entry is map_get of the old map.
map_insert(m, k, v) == [x \in DOMAIN m \cup {k} |-> IF x = k THEN v ELSE m[x]]

\* FxHashMap::get as an Option
map_get(m, k) == IF k \in DOMAIN m THEN <<m[k]>> ELSE <<>>

\* The closure f passed to lower_loop is a record [k, e, p, q]: the arm that
\* made it, its expression and the places it captured; call_closure runs it.
Closure(k, e, p, q) == [k |-> k, e |-> e, p |-> p, q |-> q]

\* Variant: the end block is allocated up front for every loop, labeled or not.
lower_loop_always_end(c, prev_block, place, label, f) ==
    LET begin == new_block_id(c)
        prev == c.current_loop_blocks
        leave(c6, prev_label) ==
            LET my == c6.current_loop_blocks
                c7 == [c6 EXCEPT !.current_loop_blocks = prev]
            IN  IF my = <<>>
                THEN Err(c7, "ImplementationError(current_loop_blocks is corrupt)")
                ELSE Ok(Log(IF prev_label # <<>>
                            THEN [c7 EXCEPT !.labeled_loop_blocks =
                                                map_insert(@, label, prev_label[1])]
                            ELSE c7,
                            [Ev("lower_loop", f.e, my[1].end) EXCEPT !.a = begin, !.x = label]),
                        my[1].end)
        run(r6, prev_label) == IF IsErr(r6) THEN r6 ELSE leave(r6.c, prev_label)
        enter(r3) ==
            IF IsErr(r3) THEN r3
            ELSE run(call_closure(
                          set_goto(IF label # ""
                                   THEN [r3.c EXCEPT !.labeled_loop_blocks =
                                            map_insert(@, label, r3.c.current_loop_blocks[1])]
                                   ELSE r3.c,
                                   prev_block, begin),
                          f, begin),
                      IF label # "" THEN map_get(r3.c.labeled_loop_blocks, label) ELSE <<>>)
    IN  enter(current_loop_end([new_basic_block(c) EXCEPT
                                   !.current_loop_blocks = <<LoopBlocks(begin, 0, place)>>]))

\* Variant: a label that the loop shadowed keeps the frame of the loop.
lower_loop_drops_shadowed(c, prev_block, place, label, f) ==
    LET begin == new_block_id(c)
        prev == c.current_loop_blocks
        leave(c6, prev_label) ==
            LET my == c6.current_loop_blocks
                c7 == [c6 EXCEPT !.current_loop_blocks = prev]
            IN  IF my = <<>>
                THEN Err(c7, "ImplementationError(current_loop_blocks is corrupt)")
                ELSE Ok(Log(c7,
                            [Ev("lower_loop", f.e, my[1].end) EXCEPT !.a = begin, !.x = label]),
                        my[1].end)
        run(r6, prev_label) == IF IsErr(r6) THEN r6 ELSE leave(r6.c, prev_label)
        enter(r3) ==
            IF IsErr(r3) THEN r3
            ELSE run(call_closure(
                          set_goto(IF label # ""
                                   THEN [r3.c EXCEPT !.labeled_loop_blocks =
                                            map_insert(@, label, r3.c.current_loop_blocks[1])]
                                   ELSE r3.c,
                                   prev_block, begin),
                          f, begin),
                      IF label # "" THEN map_get(r3.c.labeled_loop_blocks, label) ELSE <<>>)
        c2 == [new_basic_block(c) EXCEPT
                  !.current_loop_blocks = <<LoopBlocks(begin, 0, place)>>]
    IN  enter(IF label # "" THEN current_loop_end(c2) ELSE Ok(c2, 0))

\* Variant: the frame goes under its label as it was pushed, without the end
\* block.
lower_loop_registers_without_end(c, prev_block, place, label, f) ==
    LET begin == new_block_id(c)
        prev == c.current_loop_blocks
        \* the frame and a shadowed label are restored; Ok(my.end)
        leave(c6, prev_label) ==
            LET my == c6.current_loop_blocks
                c7 == [c6 EXCEPT !.current_loop_blocks = prev]
            IN  IF my = <<>>
                THEN Err(c7, "ImplementationError(current_loop_blocks is corrupt)")
                ELSE Ok(Log(IF prev_label # <<>>
                            THEN [c7 EXCEPT !.labeled_loop_blocks =
                                                map_insert(@, label, prev_label[1])]
                            ELSE c7,
                            [Ev("lower_loop", f.e, my[1].end) EXCEPT !.a = begin, !.x = label]),
                        my[1].end)
        \* f(self, begin)?
        run(r6, prev_label) == IF IsErr(r6) THEN r6 ELSE leave(r6.c, prev_label)
        \* a labeled frame gets its end block now and enters labeled_loop_blocks
        enter(r3) ==
            IF IsErr(r3) THEN r3
            ELSE run(call_closure(
                          set_goto(IF label # ""
                                   THEN [r3.c EXCEPT !.labeled_loop_blocks =
                                            map_insert(@, label, LoopBlocks(begin, 0, place))]
                                   ELSE r3.c,
                                   prev_block, begin),
                          f, begin),
                      IF label # "" THEN map_get(r3.c.labeled_loop_blocks, label) ELSE <<>>)
        c2 == [new_basic_block(c) EXCEPT
                  !.current_loop_blocks = <<LoopBlocks(begin, 0, place)>>]
    IN  enter(IF label # "" THEN current_loop_end(c2) ELSE Ok(c2, 0))

lower_loop(c, prev_block, place, label, f) ==
    LET begin == new_block_id(c)
        prev == c.current_loop_blocks
        \* the frame and a shadowed label are restored; Ok(my.end)
        leave(c6, prev_label) ==
            LET my == c6.current_loop_blocks
                c7 == [c6 EXCEPT !.current_loop_blocks = prev]
            IN  IF my = <<>>
                THEN Err(c7, "ImplementationError(current_loop_blocks is corrupt)")
                ELSE Ok(Log(IF prev_label # <<>>
                            THEN [c7 EXCEPT !.labeled_loop_blocks =
                                                map_insert(@, label, prev_label[1])]
                            ELSE c7,
                            [Ev("lower_loop", f.e, my[1].end) EXCEPT !.a = begin, !.x = label]),
                        my[1].end)
        \* f(self, begin)?
        run(r6, prev_label) == IF IsErr(r6) THEN r6 ELSE leave(r6.c, prev_label)
        \* a labeled frame gets its end block now and enters labeled_loop_blocks
        enter(r3) ==
            IF IsErr(r3) THEN r3
            ELSE run(call_closure(
                          set_goto(IF label # ""
                                   THEN [r3.c EXCEPT !.labeled_loop_blocks =
                                            map_insert(@, label, r3.c.current_loop_blocks[1])]
                                   ELSE r3.c,
                                   prev_block, begin),
                          f, begin),
                      IF label # "" THEN map_get(r3.c.labeled_loop_blocks, label) ELSE <<>>)
        c2 == [new_basic_block(c) EXCEPT
                  !.current_loop_blocks = <<LoopBlocks(begin, 0, place)>>]
    IN  enter(IF label # "" THEN current_loop_end(c2) ELSE Ok(c2, 0))

(***************************************************************************)
(* Calls and operand lists                                                 *)
(***************************************************************************)
RECURSIVE lower_operands(_, _, _, _)
RECURSIVE lower_operands_skips_diverged(_, _, _, _)

\* Variant: an operand that fails is dropped and the next one is lowered.
RECURSIVE lower_operands_drops_failed(_, _, _, _)
lower_operands_drops_failed(c, es, current, acc) ==
    LET next(r) ==
            IF IsErr(r) THEN lower_operands_drops_failed(r.c, Tail(es), current, acc)
            ELSE IF r.b = 0 THEN r
            ELSE lower_operands_drops_failed(r.c, Tail(es), r.b, Append(acc, r.v))
    IN  IF es = <<>> THEN OkV(c, current, acc)
        ELSE next(lower_expr_to_some_operand(c, Head(es), current))

\* Variant: an operand that diverges is skipped and the next one is lowered.
lower_operands_skips_diverged(c, es, current, acc) ==
    LET next(r) ==
            IF IsErr(r) THEN r
            ELSE IF r.b = 0
            THEN lower_operands_skips_diverged(r.c, Tail(es), current, acc)
            ELSE lower_operands_skips_diverged(r.c, Tail(es), r.b, Append(acc, r.v))
    IN  IF es = <<>> THEN OkV(c, current, acc)
        ELSE next(lower_expr_to_some_operand(c, Head(es), current))

\* args.map(|arg| lower_expr_to_some_operand(arg, current)).collect(): the
\* operands of the expressions es in order, stopping at the first None or Err.
\* Returned as [c, err, b |-> current, v |-> operands].
lower_operands(c, es, current, acc) ==
    LET next(r) ==
            IF Stops(r) THEN r
            ELSE lower_operands(r.c, Tail(es), r.b, Append(acc, r.v))
    IN  IF es = <<>> THEN OkV(c, current, acc)
        ELSE next(lower_expr_to_some_operand(c, Head(es), current))

lower_call_and_args(c, args, place, current, is_uninhabited) ==
    LET call(r) == IF Stops(r) THEN r
                   ELSE lower_call(r.c, r.v, place, r.b, is_uninhabited)
    IN  call(lower_operands(c, args, current, <<>>))

\* The ids of the children from..n of expression e.
KidIds(c, e, from) == [i \in 1..(Len(Expr(c, e).kids) - from + 1) |-> Kid(e, i + from - 1)]

\* is_uninhabited(expr_id): the inferred type of the call is uninhabited.
is_uninhabited(c, e) == Expr(c, e).u = 1

(***************************************************************************)
(* The arms of lower_expr_to_place_without_adjust                          *)
(***************************************************************************)
\* Expr::Missing (the owner is not a trait function in the modelled bodies)
lower_Missing(c, e, place, current) == Err(c, "IncompleteExpr")

\* db.const_eval(const_id, subst) as a Result<Const, ConstEvalError>: Expr.u
\* tells how the query ends (0: a value; 1: lowering the body of the constant
\* failed; 2: evaluating it failed).
const_eval(c, e) ==
    CASE Expr(c, e).u = 0 -> [tag |-> "Ok", e |-> ""]
      [] Expr(c, e).u = 1 -> [tag |-> "MirLowerError", e |-> "TypeMismatch"]
      [] OTHER -> [tag |-> "MirEvalError", e |-> ""]

\* impl From<ConstEvalError> for MirLowerError
From_ConstEvalError(value) ==
    IF value.tag = "MirLowerError" THEN value.e
    ELSE "ConstEvalError(" \o value.tag \o ")"

write_const_to_place(c, cv, prev_block, place, span) ==
    push_assignment(c, prev_block, place, Use(Constant(cv)), span)

lower_const(c, e, prev_block, place, span) ==
    IF const_eval(c, e).tag # "Ok" THEN Err(c, From_ConstEvalError(const_eval(c, e)))
    ELSE Ok(write_const_to_place(c, "const", prev_block, place, span), prev_block)

\* Expr::Path: a local binding is copied; a constant is evaluated; a function
\* or unit struct is zero sized; a name the resolver does not know is an error.
lower_Path(c, e, place, current) ==
    LET x == Expr(c, e) IN
    CASE x.l = "Unresolved" -> Err(c, "UnresolvedName")
      [] x.l = "LocalBinding" ->
            Ok(push_assignment(c, current, place,
                               Use(Copy(Place(c.binding_locals[x.u]))), e), current)
      [] x.l = "ConstId" -> lower_const(c, e, current, place, e)
      [] OTHER -> Ok(c, current)

\* Variant: the value 1 of the condition goes to the else entry block.
lower_If_else_on_one(c, e, place, current) ==
    LET x == Expr(c, e)
        merge(r1, r2, start_of_then, r4, start_of_else) ==
            IF IsErr(r4) THEN r4
            ELSE merge_blocks(set_terminator(r4.c, r1.b,
                                             SwitchInt(r1.v, start_of_else, start_of_then)),
                              r2.b, r4.b)
        else(r1, r2, start_of_then) ==
            IF IsErr(r2) THEN r2
            ELSE merge(r1, r2, start_of_then,
                       IF Len(x.kids) = 3
                       THEN lower_expr_to_place(new_basic_block(r2.c), Kid(e, 3), place,
                                                new_block_id(r2.c))
                       ELSE Ok(new_basic_block(r2.c), new_block_id(r2.c)),
                       new_block_id(r2.c))
        then(r1) ==
            IF Stops(r1) THEN r1
            ELSE else(r1,
                      lower_expr_to_place(new_basic_block(r1.c), Kid(e, 2), place,
                                          new_block_id(r1.c)),
                      new_block_id(r1.c))
    IN  then(lower_expr_to_some_operand(c, Kid(e, 1), current))

lower_If(c, e, place, current) ==
    LET x == Expr(c, e)
        \* the condition block gets its SwitchInt; the branches are merged
        merge(r1, r2, start_of_then, r4, start_of_else) ==
            IF IsErr(r4) THEN r4
            ELSE merge_blocks(set_terminator(r4.c, r1.b,
                                             SwitchInt(r1.v, start_of_then, start_of_else)),
                              r2.b, r4.b)
        else(r1, r2, start_of_then) ==
            IF IsErr(r2) THEN r2
            ELSE merge(r1, r2, start_of_then,
                       IF Len(x.kids) = 3
                       THEN lower_expr_to_place(new_basic_block(r2.c), Kid(e, 3), place,
                                                new_block_id(r2.c))
                       ELSE Ok(new_basic_block(r2.c), new_block_id(r2.c)),
                       new_block_id(r2.c))
        then(r1) ==
            IF Stops(r1) THEN r1
            ELSE else(r1,
                      lower_expr_to_place(new_basic_block(r1.c), Kid(e, 2), place,
                                          new_block_id(r1.c)),
                      new_block_id(r1.c))
    IN  then(lower_expr_to_some_operand(c, Kid(e, 1), current))

\* Expr::Let { pat, expr }
lower_Let(c, e, place, current) ==
    LET x == Expr(c, e)
        write(r2) ==
            IF IsErr(r2) THEN r2
            ELSE merge_blocks(
                     IF r2.v # 0
                     THEN write_bytes_to_place(
                              write_bytes_to_place(r2.c, r2.b, place, "1", MirSpanUnknown),
                              r2.v, place, "0", MirSpanUnknown)
                     ELSE write_bytes_to_place(r2.c, r2.b, place, "1", MirSpanUnknown),
                     r2.b, r2.v)
        match(r1) == IF Stops(r1) THEN r1 ELSE write(pattern_match(r1.c, r1.b, r1.v, x.u))
    IN  match(lower_expr_as_place(c, current, Kid(e, 1), TRUE))

\* Variant: the tail block of a labeled block goes back to begin, as that of
\* a loop does.
block_closure_back_to_begin(this, e, place, begin) ==
    LET end(r1) == IF IsErr(r1) THEN r1
                   ELSE IF r1.b = 0 THEN Ok(r1.c, 0)
                   ELSE Ok(set_goto(r1.c, r1.b, begin), 0)
    IN  end(lower_block_to_place(this, e, begin, place))

\* The closure of the labeled Expr::Block arm
block_closure(this, e, place, begin) ==
    LET goto(r1, r2) == IF IsErr(r2) THEN r2 ELSE Ok(set_goto(r2.c, r1.b, r2.b), 0)
        end(r1) == IF IsErr(r1) THEN r1
                   ELSE IF r1.b = 0 THEN Ok(r1.c, 0)
                   ELSE goto(r1, current_loop_end(r1.c))
    IN  end(lower_block_to_place(this, e, begin, place))

lower_Block(c, e, place, current) ==
    LET x == Expr(c, e) IN
    IF x.l # ""
    THEN lower_loop(c, current, place, x.l, Closure("Block", e, place, NoPlace))
    ELSE lower_block_to_place(c, e, current, place)

\* The closure of the Expr::Loop arm
loop_closure(this, e, begin) ==
    LET back(r1) == IF IsErr(r1) THEN r1
                    ELSE IF r1.b = 0 THEN Ok(r1.c, 0)
                    ELSE Ok(set_goto(r1.c, r1.b, begin), 0)
    IN  back(lower_expr_as_place(this, begin, Kid(e, 1), TRUE))

lower_Loop(c, e, place, current) ==
    lower_loop(c, current, place, Expr(c, e).l, Closure("Loop", e, NoPlace, NoPlace))

\* Variant: the value 1 of the condition leaves the loop and the rest goes
\* into the body.
while_closure_exits_on_one(this, e, begin) ==
    LET back(r4) == IF IsErr(r4) THEN r4
                    ELSE IF r4.b = 0 THEN Ok(r4.c, 0)
                    ELSE Ok(set_goto(r4.c, r4.b, begin), 0)
        run(r1, r2) ==
            IF IsErr(r2) THEN r2
            ELSE back(lower_expr_as_place(
                          set_terminator(new_basic_block(r2.c), r1.b,
                                         SwitchInt(r1.v, r2.b, new_block_id(r2.c))),
                          new_block_id(r2.c), Kid(e, 2), TRUE))
        cond(r1) == IF IsErr(r1) THEN r1
                    ELSE IF r1.b = 0 THEN Ok(r1.c, 0)
                    ELSE run(r1, current_loop_end(r1.c))
    IN  cond(lower_expr_to_some_operand(this, Kid(e, 1), begin))

\* The closure of the Expr::While arm
while_closure(this, e, begin) ==
    LET back(r4) == IF IsErr(r4) THEN r4
                    ELSE IF r4.b = 0 THEN Ok(r4.c, 0)
                    ELSE Ok(set_goto(r4.c, r4.b, begin), 0)
        run(r1, r2) ==
            IF IsErr(r2) THEN r2
            ELSE back(lower_expr_as_place(
                          set_terminator(new_basic_block(r2.c), r1.b,
                                         SwitchInt(r1.v, new_block_id(r2.c), r2.b)),
                          new_block_id(r2.c), Kid(e, 2), TRUE))
        cond(r1) == IF IsErr(r1) THEN r1
                    ELSE IF r1.b = 0 THEN Ok(r1.c, 0)
                    ELSE run(r1, current_loop_end(r1.c))
    IN  cond(lower_expr_to_some_operand(this, Kid(e, 1), begin))

lower_While(c, e, place, current) ==
    lower_loop(c, current, place, Expr(c, e).l, Closure("While", e, NoPlace, NoPlace))

\* The closure of the Expr::For arm
for_closure(this, e, ref_mut_iterator_place, option_item_place, begin) ==
    LET back(r4) == IF IsErr(r4) THEN r4
                    ELSE IF r4.b = 0 THEN Ok(r4.c, 0)
                    ELSE Ok(set_goto(r4.c, r4.b, begin), 0)
        run(r3) == IF IsErr(r3) THEN r3
                    ELSE back(lower_expr_as_place(r3.c, r3.b, Kid(e, 2), TRUE))
        some(r1, r2) ==
            IF IsErr(r2) THEN r2
            ELSE run(pattern_matching_variant(r2.c, option_item_place, r1.b, r2.b))
        next(r1) == IF IsErr(r1) THEN r1
                    ELSE IF r1.b = 0 THEN Ok(r1.c, 0)
                    ELSE some(r1, current_loop_end(r1.c))
    IN  next(lower_call(this, <<Copy(ref_mut_iterator_place)>>, option_item_place,
                        begin, FALSE))

\* Expr::For { iterable, pat, body, label }; x.u = 1 when a lang item is missing.
lower_For(c, e, place, current) ==
    LET x == Expr(c, e)
        iterator_place == Place(temp_id(c))
        c1 == temp(c, "iterator")
        option_item_place == Place(temp_id(c1))
        c2 == temp(c1, "option_item")
        ref_mut_iterator_place == Place(temp_id(c2))
        c3 == temp(c2, "ref_mut_iterator")
        loop(r4) ==
            IF Stops(r4) THEN r4
            ELSE lower_loop(push_assignment(r4.c, r4.b, ref_mut_iterator_place,
                                            Rvalue("Ref", "Mut", <<Copy(iterator_place)>>), e),
                            r4.b, place, x.l,
                            Closure("For", e, ref_mut_iterator_place, option_item_place))
    IN  IF x.u = 1 THEN Err(c, "LangItemNotFound")
        ELSE loop(lower_call_and_args(c3, <<Kid(e, 1)>>, iterator_place, current, FALSE))

\* f(self, begin) in lower_loop
call_closure(this, f, begin) ==
    CASE f.k = "Block" -> block_closure(this, f.e, f.p, begin)
      [] f.k = "Loop" -> loop_closure(this, f.e, begin)
      [] f.k = "While" -> while_closure(this, f.e, begin)
      [] f.k = "For" -> for_closure(this, f.e, f.p, f.q, begin)

\* Expr::Call { callee, args }; x.l is what inference knows of the callee.
lower_Call(c, e, place, current) ==
    LET x == Expr(c, e)
        args(r1) == IF Stops(r1) THEN r1
                    ELSE lower_call_and_args(r1.c, KidIds(c, e, 2), place, r1.b,
                                             is_uninhabited(c, e))
    IN  CASE x.l = "MethodResolution" ->
               lower_call_and_args(c, KidIds(c, e, 1), place, current, is_uninhabited(c, e))
          [] x.l = "FnDef" ->
               lower_call_and_args(c, KidIds(c, e, 2), place, current, is_uninhabited(c, e))
          [] x.l = "Function" -> args(lower_expr_to_some_operand(c, Kid(e, 1), current))
          [] x.l = "Error" -> Err(c, "MissingFunctionDefinition")
          [] OTHER -> Err(c, "TypeError(function call on bad type)")

\* Expr::MethodCall { receiver, args }
lower_MethodCall(c, e, place, current) ==
    IF Expr(c, e).l = "Unresolved" THEN Err(c, "UnresolvedMethod")
    ELSE lower_call_and_args(c, KidIds(c, e, 1), place, current, is_uninhabited(c, e))

RECURSIVE match_arms(_, _, _, _, _, _, _)
RECURSIVE match_arms_tries_all(_, _, _, _, _, _, _)
RECURSIVE match_arms_own_end(_, _, _, _, _, _, _)

\* Variant: the arms after an irrefutable unguarded arm are lowered as well.
match_arms_tries_all(c, e, i, current, cond_place, place, end) ==
    LET arm == Expr(c, Kid(e, i))
        \* a tail block of the body goes to the shared end; then the next arm
        \* in the otherwise block, or the break
        exit(r7, otherwise) ==
            LET r == IF end # 0 THEN end ELSE new_block_id(r7.c)
                c8 == IF r7.b = 0 THEN r7.c
                      ELSE set_goto(IF end # 0 THEN r7.c ELSE new_basic_block(r7.c), r7.b, r)
                end8 == IF r7.b = 0 THEN end ELSE r
            IN  IF IsErr(r7) THEN r7
                ELSE IF otherwise # 0
                THEN match_arms_tries_all(c8, e, i + 1, otherwise, cond_place, place, end8)
                ELSE match_arms_tries_all(c8, e, i + 1, current, cond_place, place, end8)
        \* the arm body, lowered in block then
        run(c6, then, otherwise) ==
            exit(lower_expr_to_place(
                     Log(c6, [Ev("arm", Kid(e, i), current) EXCEPT
                                 !.a = otherwise, !.v = cond_place]),
                     Kid(Kid(e, i), Len(arm.kids)), place, then),
                 otherwise)
        \* the guard, lowered in block then: on to next, or to o
        guard(r4, next, o) ==
            IF IsErr(r4) THEN r4
            ELSE run(IF r4.b # 0
                      THEN set_terminator(r4.c, r4.b, SwitchInt(r4.v, next, o))
                      ELSE r4.c,
                      next, o)
        \* next, and the otherwise block if the pattern gave none
        guarded(r1) ==
            LET next == new_block_id(r1.c)
                c2 == new_basic_block(r1.c)
                o == IF r1.v # 0 THEN r1.v ELSE new_block_id(c2)
                c3 == IF r1.v # 0 THEN c2 ELSE new_basic_block(c2)
            IN  guard(lower_expr_to_some_operand(c3, Kid(Kid(e, i), 1), r1.b), next, o)
        test(r1) ==
            IF IsErr(r1) THEN r1
            ELSE IF Len(arm.kids) = 2 THEN guarded(r1)
            ELSE run(r1.c, r1.b, r1.v)
    IN  IF i > Len(Expr(c, e).kids) THEN OkV(c, current, end)
        ELSE test(pattern_match(c, current, cond_place, arm.u))

\* Variant: every arm body that yields a tail block gets an end block of its own.
match_arms_own_end(c, e, i, current, cond_place, place, end) ==
    LET arm == Expr(c, Kid(e, i))
        \* a tail block of the body goes to the shared end; then the next arm
        \* in the otherwise block, or the break
        exit(r7, otherwise) ==
            LET r == new_block_id(r7.c)
                c8 == IF r7.b = 0 THEN r7.c
                      ELSE set_goto(new_basic_block(r7.c), r7.b, r)
                end8 == IF r7.b = 0 THEN end ELSE r
            IN  IF IsErr(r7) THEN r7
                ELSE IF otherwise # 0
                THEN match_arms_own_end(c8, e, i + 1, otherwise, cond_place, place, end8)
                ELSE OkV(c8, current, end8)
        \* the arm body, lowered in block then
        run(c6, then, otherwise) ==
            exit(lower_expr_to_place(
                     Log(c6, [Ev("arm", Kid(e, i), current) EXCEPT
                                 !.a = otherwise, !.v = cond_place]),
                     Kid(Kid(e, i), Len(arm.kids)), place, then),
                 otherwise)
        \* the guard, lowered in block then: on to next, or to o
        guard(r4, next, o) ==
            IF IsErr(r4) THEN r4
            ELSE run(IF r4.b # 0
                      THEN set_terminator(r4.c, r4.b, SwitchInt(r4.v, next, o))
                      ELSE r4.c,
                      next, o)
        \* next, and the otherwise block if the pattern gave none
        guarded(r1) ==
            LET next == new_block_id(r1.c)
                c2 == new_basic_block(r1.c)
                o == IF r1.v # 0 THEN r1.v ELSE new_block_id(c2)
                c3 == IF r1.v # 0 THEN c2 ELSE new_basic_block(c2)
            IN  guard(lower_expr_to_some_operand(c3, Kid(Kid(e, i), 1), r1.b), next, o)
        test(r1) ==
            IF IsErr(r1) THEN r1
            ELSE IF Len(arm.kids) = 2 THEN guarded(r1)
            ELSE run(r1.c, r1.b, r1.v)
    IN  IF i > Len(Expr(c, e).kids) THEN OkV(c, current, end)
        ELSE test(pattern_match(c, current, cond_place, arm.u))

\* The `for MatchArm { pat, guard, expr } in arms.iter()` loop of the
\* Expr::Match arm, from arm i on.  Returned as [c, err, b |-> current when
\* the loop ends, v |-> end].
match_arms(c, e, i, current, cond_place, place, end) ==
    LET arm == Expr(c, Kid(e, i))
        \* a tail block of the body goes to the shared end; then the next arm
        \* in the otherwise block, or the break
        exit(r7, otherwise) ==
            LET r == IF end # 0 THEN end ELSE new_block_id(r7.c)
                c8 == IF r7.b = 0 THEN r7.c
                      ELSE set_goto(IF end # 0 THEN r7.c ELSE new_basic_block(r7.c), r7.b, r)
                end8 == IF r7.b = 0 THEN end ELSE r
            IN  IF IsErr(r7) THEN r7
                ELSE IF otherwise # 0
                THEN match_arms(c8, e, i + 1, otherwise, cond_place, place, end8)
                ELSE OkV(c8, current, end8)
        \* the arm body, lowered in block then
        run(c6, then, otherwise) ==
            exit(lower_expr_to_place(
                     Log(c6, [Ev("arm", Kid(e, i), current) EXCEPT
                                 !.a = otherwise, !.v = cond_place]),
                     Kid(Kid(e, i), Len(arm.kids)), place, then),
                 otherwise)
        \* the guard, lowered in block then: on to next, or to o
        guard(r4, next, o) ==
            IF IsErr(r4) THEN r4
            ELSE run(IF r4.b # 0
                      THEN set_terminator(r4.c, r4.b, SwitchInt(r4.v, next, o))
                      ELSE r4.c,
                      next, o)
        \* next, and the otherwise block if the pattern gave none
        guarded(r1) ==
            LET next == new_block_id(r1.c)
                c2 == new_basic_block(r1.c)
                o == IF r1.v # 0 THEN r1.v ELSE new_block_id(c2)
                c3 == IF r1.v # 0 THEN c2 ELSE new_basic_block(c2)
            IN  guard(lower_expr_to_some_operand(c3, Kid(Kid(e, i), 1), r1.b), next, o)
        test(r1) ==
            IF IsErr(r1) THEN r1
            ELSE IF Len(arm.kids) = 2 THEN guarded(r1)
            ELSE run(r1.c, r1.b, r1.v)
    IN  IF i > Len(Expr(c, e).kids) THEN OkV(c, current, end)
        ELSE test(pattern_match(c, current, cond_place, arm.u))

\* Variant: the block where the last arm falls through is left as it is.
lower_Match_keeps_fallthrough(c, e, place, current) ==
    LET finish(r2) == IF IsErr(r2) THEN r2 ELSE Ok(r2.c, r2.v)
        arms(r1) == IF Stops(r1) THEN r1
                    ELSE finish(match_arms(r1.c, e, 2, r1.b, r1.v, place, 0))
    IN  arms(lower_expr_as_place(c, current, Kid(e, 1), TRUE))

\* Variant: the block left after the last arm gets Unreachable, whatever
\* terminator it has.
lower_Match_unguarded(c, e, place, current) ==
    LET finish(r2) ==
            IF IsErr(r2) THEN r2
            ELSE Ok(set_terminator(r2.c, r2.b, Unreachable), r2.v)
        arms(r1) == IF Stops(r1) THEN r1
                    ELSE finish(match_arms(r1.c, e, 2, r1.b, r1.v, place, 0))
    IN  arms(lower_expr_as_place(c, current, Kid(e, 1), TRUE))

\* Expr::Match { expr, arms }: child 1 is the scrutinee, the others the arms.
lower_Match(c, e, place, current) ==
    LET finish(r2) ==
            IF IsErr(r2) THEN r2
            ELSE Ok(IF is_unterminated(r2.c, r2.b)
                    THEN set_terminator(r2.c, r2.b, Unreachable)
                    ELSE r2.c,
                    r2.v)
        arms(r1) == IF Stops(r1) THEN r1
                    ELSE finish(match_arms(r1.c, e, 2, r1.b, r1.v, place, 0))
    IN  arms(lower_expr_as_place(c, current, Kid(e, 1), TRUE))

\* Variant: outside every frame, continue jumps to the block it is in.
lower_Continue_to_current(c, e, place, current) ==
    IF Expr(c, e).l # "" THEN Err(c, "NotSupported(continue with label)")
    ELSE IF c.current_loop_blocks = <<>> THEN Ok(set_goto(c, current, current), 0)
    ELSE Ok(set_goto(Log(c, [Ev("continue", e, Frame(c)) EXCEPT !.a = Frame(c)]),
                     current, c.current_loop_blocks[1].begin), 0)

lower_Continue(c, e, place, current) ==
    IF Expr(c, e).l # "" THEN Err(c, "NotSupported(continue with label)")
    ELSE IF c.current_loop_blocks = <<>> THEN Err(c, "ContinueWithoutLoop")
    ELSE Ok(set_goto(Log(c, [Ev("continue", e, Frame(c)) EXCEPT !.a = Frame(c)]),
                     current, c.current_loop_blocks[1].begin), 0)

\* Variant: the value goes into the place of the innermost frame, also when
\* the break bears a label.
lower_Break_into_current(c, e, place, current) ==
    LET x == Expr(c, e)
        label == x.l
        has_expr == Len(x.kids) = 1
        loop_data == IF label # "" THEN map_get(c.labeled_loop_blocks, label)
                     ELSE c.current_loop_blocks
        \* self.set_goto(current, end) for the frame that begins at begin
        goto(r1, r2, begin) ==
            IF IsErr(r2) THEN r2
            ELSE Ok(set_goto(Log(r2.c, [Ev("break", e, r2.b) EXCEPT
                                           !.a = begin, !.x = label]),
                             r1.b, r2.b), 0)
        labeled(r1, frame) ==
            IF frame = <<>> THEN Err(r1.c, "UnresolvedLabel")
            ELSE IF frame[1].end = 0
            THEN Err(r1.c, "panic(We always generate end for labeled loops)")
            ELSE goto(r1, Ok(r1.c, frame[1].end), frame[1].begin)
        end(r1) ==
            IF Stops(r1) THEN r1
            ELSE IF label # "" THEN labeled(r1, map_get(r1.c.labeled_loop_blocks, label))
            ELSE goto(r1, current_loop_end(r1.c), Frame(r1.c))
    IN  IF has_expr /\ loop_data = <<>>
        THEN Err(c, IF label # "" THEN "UnresolvedLabel" ELSE "BreakWithoutLoop")
        ELSE end(IF has_expr
                 THEN lower_expr_to_place(c, Kid(e, 1),
                                          IF c.current_loop_blocks = <<>> THEN place
                                          ELSE c.current_loop_blocks[1].place,
                                          current)
                 ELSE Ok(c, current))

\* Expr::Break { expr, label }: child 1, when present, is the value.
lower_Break(c, e, place, current) ==
    LET x == Expr(c, e)
        label == x.l
        has_expr == Len(x.kids) = 1
        loop_data == IF label # "" THEN map_get(c.labeled_loop_blocks, label)
                     ELSE c.current_loop_blocks
        \* self.set_goto(current, end) for the frame that begins at begin
        goto(r1, r2, begin) ==
            IF IsErr(r2) THEN r2
            ELSE Ok(set_goto(Log(r2.c, [Ev("break", e, r2.b) EXCEPT
                                           !.a = begin, !.x = label]),
                             r1.b, r2.b), 0)
        labeled(r1, frame) ==
            IF frame = <<>> THEN Err(r1.c, "UnresolvedLabel")
            ELSE IF frame[1].end = 0
            THEN Err(r1.c, "panic(We always generate end for labeled loops)")
            ELSE goto(r1, Ok(r1.c, frame[1].end), frame[1].begin)
        end(r1) ==
            IF Stops(r1) THEN r1
            ELSE IF label # "" THEN labeled(r1, map_get(r1.c.labeled_loop_blocks, label))
            ELSE goto(r1, current_loop_end(r1.c), Frame(r1.c))
    IN  IF has_expr /\ loop_data = <<>>
        THEN Err(c, IF label # "" THEN "UnresolvedLabel" ELSE "BreakWithoutLoop")
        ELSE end(IF has_expr
                 THEN lower_expr_to_place(c, Kid(e, 1), loop_data[1].place, current)
                 ELSE Ok(c, current))

\* Expr::Return { expr }
lower_Return(c, e, place, current) ==
    LET return(r1) == IF Stops(r1) THEN r1
                      ELSE Ok(set_terminator(r1.c, r1.b, Return), 0)
    IN  return(IF Len(Expr(c, e).kids) = 1
               THEN lower_expr_to_place(c, Kid(e, 1), Place(return_slot), current)
               ELSE Ok(c, current))

\* The `for RecordLitField { name, expr } in fields.iter()` loop: field i of
\* the literal has declared index Expr.u (0: the variant has no such field).
NoOperand == [o |-> "None", place |-> NoPlace, c |-> ""]

RECURSIVE record_fields(_, _, _, _, _)

\* Variant: the operand of a field goes to the slot of its position in the
\* literal.
record_fields_in_written_order(c, e, i, current, operands) ==
    LET field == Expr(c, Kid(e, i))
        slot == IF Expr(c, e).l = "Spread" THEN i - 1 ELSE i
        next(r) == IF Stops(r) THEN r
                   ELSE record_fields(r.c, e, i + 1, r.b, [operands EXCEPT ![slot] = r.v])
    IN  IF i > Len(Expr(c, e).kids) THEN OkV(c, current, operands)
        ELSE IF field.u = 0 THEN Err(c, "UnresolvedField")
        ELSE next(lower_expr_to_some_operand(c, Kid(Kid(e, i), 1), current))

record_fields(c, e, i, current, operands) ==
    LET field == Expr(c, Kid(e, i))
        next(r) == IF Stops(r) THEN r
                   ELSE record_fields(r.c, e, i + 1, r.b, [operands EXCEPT ![field.u] = r.v])
    IN  IF i > Len(Expr(c, e).kids) THEN OkV(c, current, operands)
        ELSE IF field.u = 0 THEN Err(c, "UnresolvedField")
        ELSE next(lower_expr_to_some_operand(c, Kid(Kid(e, i), 1), current))

\* Expr::RecordLit for a struct or enum variant with Expr.u declared fields;
\* Expr.l = "Spread" when child 1 is the spread base.
lower_RecordLit(c, e, place, current) ==
    LET x == Expr(c, e)
        has_spread == x.l = "Spread"
        aggregate(r1, r2) ==
            LET filled == [i \in 1..x.u |->
                             IF r2.v[i] # NoOperand THEN r2.v[i]
                             ELSE Copy([r1.v EXCEPT
                                           !.projection = Append(@, <<"Field", i - 1>>)])]
            IN  IF Stops(r2) THEN r2
                ELSE IF ~has_spread /\ \E i \in 1..x.u : r2.v[i] = NoOperand
                THEN Err(r2.c, "TypeError(missing field in record literal)")
                ELSE Ok(push_assignment(r2.c, r2.b, place,
                                        Rvalue("Aggregate", "Adt",
                                               IF has_spread THEN filled ELSE r2.v),
                                        e), r2.b)
        fields(r1) ==
            IF Stops(r1) THEN r1
            ELSE aggregate(r1, record_fields(r1.c, e, IF has_spread THEN 2 ELSE 1, r1.b,
                                             [i \in 1..x.u |-> NoOperand]))
    IN  fields(IF has_spread THEN lower_expr_as_place(c, current, Kid(e, 1), TRUE)
               ELSE Ok(c, current))

\* Expr::Cast; Expr.l is the cast kind cast_kind finds, "Unknown" when none.
lower_Cast(c, e, place, current) ==
    LET cast(r1) ==
            IF Stops(r1) THEN r1
            ELSE IF Expr(c, e).l = "Unknown" THEN Err(r1.c, "NotSupported(Unknown cast)")
            ELSE Ok(push_assignment(r1.c, r1.b, place,
                                    Rvalue("Cast", Expr(c, e).l, <<r1.v>>), e), r1.b)
    IN  cast(lower_expr_to_some_operand(c, Kid(e, 1), current))

lower_Ref(c, e, place, current) ==
    LET ref(r1) ==
            IF Stops(r1) THEN r1
            ELSE Ok(push_assignment(r1.c, r1.b, place,
                                    Rvalue("Ref", Expr(c, e).l, <<Copy(r1.v)>>), e), r1.b)
    IN  ref(lower_expr_as_place(c, current, Kid(e, 1), TRUE))

\* Expr::UnaryOp with op Not or Neg
lower_UnaryOp(c, e, place, current) ==
    LET unary(r1) ==
            IF Stops(r1) THEN r1
            ELSE Ok(push_assignment(r1.c, r1.b, place,
                                    Rvalue("UnaryOp", Expr(c, e).l, <<r1.v>>), e), r1.b)
    IN  unary(lower_expr_to_some_operand(c, Kid(e, 1), current))

\* BinOp of a LogicOp, ArithOp or CmpOp
BinOp(op) == CASE op = "And" -> "BitAnd" [] op = "Or" -> "BitOr" [] OTHER -> op

\* Variant: a compound assignment is lowered as a plain assignment.
lower_BinaryOp_compound_as_assign(c, e, place, current) ==
    LET op == Expr(c, e).l
        store(a1, a2) ==
            IF Stops(a2) THEN a2
            ELSE Ok(push_assignment(a2.c, a2.b, a1.v, Use(a2.v), e), a2.b)
        assign(a1) ==
            IF Stops(a1) THEN a1
            ELSE store(a1, lower_expr_to_some_operand(a1.c, Kid(e, 2), a1.b))
        checked(r1, r2) ==
            IF Stops(r2) THEN r2
            ELSE Ok(push_assignment(r2.c, r2.b, place,
                                    Rvalue("CheckedBinaryOp", BinOp(op), <<r1.v, r2.v>>),
                                    e), r2.b)
        rhs(r1) ==
            IF Stops(r1) THEN r1
            ELSE checked(r1, lower_expr_to_some_operand(r1.c, Kid(e, 2), r1.b))
    IN  CASE op = "" -> Err(c, "IncompleteExpr")
          [] op = "AssignOp" -> assign(lower_expr_as_place(c, current, Kid(e, 1), FALSE))
          [] op = "Assign" -> assign(lower_expr_as_place(c, current, Kid(e, 1), FALSE))
          [] OTHER -> rhs(lower_expr_to_some_operand(c, Kid(e, 1), current))

\* Variant: the right operand is lowered before the left one.
lower_BinaryOp_right_first(c, e, place, current) ==
    LET op == Expr(c, e).l
        store(a1, a2) ==
            IF Stops(a2) THEN a2
            ELSE Ok(push_assignment(a2.c, a2.b, a1.v, Use(a2.v), e), a2.b)
        assign(a1) ==
            IF Stops(a1) THEN a1
            ELSE store(a1, lower_expr_to_some_operand(a1.c, Kid(e, 2), a1.b))
        checked(r2, r1) ==
            IF Stops(r1) THEN r1
            ELSE Ok(push_assignment(r1.c, r1.b, place,
                                    Rvalue("CheckedBinaryOp", BinOp(op), <<r1.v, r2.v>>),
                                    e), r1.b)
        lhs(r2) ==
            IF Stops(r2) THEN r2
            ELSE checked(r2, lower_expr_to_some_operand(r2.c, Kid(e, 1), r2.b))
    IN  CASE op = "" -> Err(c, "IncompleteExpr")
          [] op = "AssignOp" -> Err(c, "NotSupported(assignment with arith op (like +=))")
          [] op = "Assign" -> assign(lower_expr_as_place(c, current, Kid(e, 1), FALSE))
          [] OTHER -> lhs(lower_expr_to_some_operand(c, Kid(e, 2), current))

\* Expr::BinaryOp { lhs, rhs, op }: Expr.l is the operator ("" when missing,
\* "Assign" for =, "AssignOp" for a compound assignment).
lower_BinaryOp(c, e, place, current) ==
    LET op == Expr(c, e).l
        store(a1, a2) ==
            IF Stops(a2) THEN a2
            ELSE Ok(push_assignment(a2.c, a2.b, a1.v, Use(a2.v), e), a2.b)
        assign(a1) ==
            IF Stops(a1) THEN a1
            ELSE store(a1, lower_expr_to_some_operand(a1.c, Kid(e, 2), a1.b))
        checked(r1, r2) ==
            IF Stops(r2) THEN r2
            ELSE Ok(push_assignment(r2.c, r2.b, place,
                                    Rvalue("CheckedBinaryOp", BinOp(op), <<r1.v, r2.v>>),
                                    e), r2.b)
        rhs(r1) ==
            IF Stops(r1) THEN r1
            ELSE checked(r1, lower_expr_to_some_operand(r1.c, Kid(e, 2), r1.b))
    IN  CASE op = "" -> Err(c, "IncompleteExpr")
          [] op = "AssignOp" -> Err(c, "NotSupported(assignment with arith op (like +=))")
          [] op = "Assign" -> assign(lower_expr_as_place(c, current, Kid(e, 1), FALSE))
          [] OTHER -> rhs(lower_expr_to_some_operand(c, Kid(e, 1), current))

\* Expr::Tuple and Expr::Array(Array::ElementList)
lower_Aggregate(c, e, place, current) ==
    LET aggregate(r1) ==
            IF Stops(r1) THEN r1
            ELSE Ok(push_assignment(r1.c, r1.b, place,
                                    Rvalue("Aggregate", Expr(c, e).k, r1.v), e), r1.b)
    IN  aggregate(lower_operands(c, KidIds(c, e, 1), current, <<>>))

\* lower_literal_to_operand (the layout query succeeds for the modelled types)
lower_literal_to_operand(c, e) == Constant(Expr(c, e).l)

lower_Literal(c, e, place, current) ==
    Ok(push_assignment(c, current, place, Use(lower_literal_to_operand(c, e)), e), current)

\* The kinds that end in not_supported!
NotSupportedKinds ==
    {"Yield", "Await", "Yeet", "Async", "Const", "Box", "Closure", "ArrayRepeat",
     "Underscore"}

(***************************************************************************)
(* The three lowering modes                                                *)
(***************************************************************************)
lower_expr_to_place_without_adjust(c, e, place, current) ==
    LET k == Expr(c, e).k
        c0 == Enter(c, e, current, "to_place", place)
    IN  Exit(CASE k = "Missing" -> lower_Missing(c0, e, place, current)
               [] k = "Path" -> lower_Path(c0, e, place, current)
               [] k = "If" -> lower_If(c0, e, place, current)
               [] k = "Let" -> lower_Let(c0, e, place, current)
               [] k = "Unsafe" -> lower_block_to_place(c0, e, current, place)
               [] k = "Block" -> lower_Block(c0, e, place, current)
               [] k = "Loop" -> lower_Loop(c0, e, place, current)
               [] k = "While" -> lower_While(c0, e, place, current)
               [] k = "For" -> lower_For(c0, e, place, current)
               [] k = "Call" -> lower_Call(c0, e, place, current)
               [] k = "MethodCall" -> lower_MethodCall(c0, e, place, current)
               [] k = "Match" -> lower_Match(c0, e, place, current)
               [] k = "Continue" -> lower_Continue(c0, e, place, current)
               [] k = "Break" -> lower_Break(c0, e, place, current)
               [] k = "Return" -> lower_Return(c0, e, place, current)
               [] k = "RecordLit" -> lower_RecordLit(c0, e, place, current)
               [] k = "Cast" -> lower_Cast(c0, e, place, current)
               [] k = "Ref" -> lower_Ref(c0, e, place, current)
               [] k = "UnaryOp" -> lower_UnaryOp(c0, e, place, current)
               [] k = "BinaryOp" -> lower_BinaryOp(c0, e, place, current)
               [] k \in {"Tuple", "Array"} -> lower_Aggregate(c0, e, place, current)
               [] k = "Literal" -> lower_Literal(c0, e, place, current)
               [] k \in NotSupportedKinds -> Err(c0, "NotSupported(" \o k \o ")"),
             e)

\* An adjustment: its kind (NeverToAny, Deref, Borrow, Pointer), the
\* mutability of a borrow or the pointer cast (x), and its target type.
Adjustment(kind, x, target) == [kind |-> kind, x |-> x, target |-> target]

\* BorrowKind::from_chalk(m), kept as a term in m.
BorrowKind_from_chalk(m) == "from_chalk(" \o m \o ")"

\* CastKind::Pointer(cast) together with the type cast to.
CastTo(cast, target) == "Pointer(" \o cast \o ") as " \o target

RECURSIVE lower_expr_to_place_with_adjust(_, _, _, _, _)
RECURSIVE lower_expr_as_place_with_adjust(_, _, _, _, _)

\* as_place.rs: a trailing built-in Deref projects the place lowered under the
\* earlier adjustments; any other trailing adjustment yields an rvalue, which
\* is materialised in a temporary (lower_expr_to_some_place_with_adjust).
lower_expr_as_place_with_adjust(c, current, e, upgrade_rvalue, adjustments) ==
    LET last == adjustments[Len(adjustments)]
        rest == SubSeq(adjustments, 1, Len(adjustments) - 1)
        place == Place(temp_id(c))
        deref(r) ==
            IF Stops(r) THEN r
            ELSE OkV(r.c, r.b, [r.v EXCEPT !.projection = Append(@, <<"Deref", 0>>)])
        some(t) == IF Stops(t) THEN t ELSE OkV(t.c, t.b, place)
    IN  IF adjustments = <<>>
        THEN lower_expr_as_place_without_adjust(c, current, e, upgrade_rvalue)
        ELSE IF last.kind = "Deref"
        THEN deref(lower_expr_as_place_with_adjust(c, current, e, upgrade_rvalue, rest))
        ELSE IF ~upgrade_rvalue THEN Err(c, "MutatingRvalue")
        ELSE some(lower_expr_to_place_with_adjust(temp(c, "temp"), e, place, current,
                                                  adjustments))

\* Variant: a trailing Deref reads the place lowered under the earlier
\* adjustments only.
lower_expr_to_place_with_adjust_deref_under_rest(c, e, place, current, adjustments) ==
    LET last == adjustments[Len(adjustments)]
        rest == SubSeq(adjustments, 1, Len(adjustments) - 1)
        assign(p) ==
            IF Stops(p) THEN p
            ELSE Ok(push_assignment(p.c, p.b, place,
                                    CASE last.kind = "Deref" -> Use(Copy(p.v))
                                      [] last.kind = "Borrow" ->
                                            Rvalue("Ref", BorrowKind_from_chalk(last.x),
                                                   <<Copy(p.v)>>)
                                      [] last.kind = "Pointer" ->
                                            Rvalue("Cast", CastTo(last.x, last.target),
                                                   <<Copy(p.v)>>),
                                    e), p.b)
    IN  IF adjustments = <<>>
        THEN lower_expr_to_place_without_adjust(c, e, place, current)
        ELSE IF last.kind = "NeverToAny"
        THEN lower_expr_to_place_with_adjust(temp(c, "never"), e, Place(temp_id(c)),
                                             current, rest)
        ELSE assign(lower_expr_as_place_with_adjust(c, current, e, TRUE, rest))

lower_expr_to_place_with_adjust(c, e, place, current, adjustments) ==
    LET last == adjustments[Len(adjustments)]
        rest == SubSeq(adjustments, 1, Len(adjustments) - 1)
        \* the place p is read, borrowed or cast into place
        assign(p) ==
            IF Stops(p) THEN p
            ELSE Ok(push_assignment(p.c, p.b, place,
                                    CASE last.kind = "Deref" -> Use(Copy(p.v))
                                      [] last.kind = "Borrow" ->
                                            Rvalue("Ref", BorrowKind_from_chalk(last.x),
                                                   <<Copy(p.v)>>)
                                      [] last.kind = "Pointer" ->
                                            Rvalue("Cast", CastTo(last.x, last.target),
                                                   <<Copy(p.v)>>),
                                    e), p.b)
    IN  IF adjustments = <<>>
        THEN lower_expr_to_place_without_adjust(c, e, place, current)
        ELSE IF last.kind = "NeverToAny"
        THEN lower_expr_to_place_with_adjust(temp(c, "never"), e, Place(temp_id(c)),
                                             current, rest)
        ELSE assign(lower_expr_as_place_with_adjust(c, current, e, TRUE,
                        IF last.kind = "Deref" THEN adjustments ELSE rest))

lower_expr_to_place(c, e, place, prev_block) ==
    lower_expr_to_place_with_adjust(c, e, place, prev_block, Expr(c, e).adj)

lower_expr_as_place(c, current, e, upgrade_rvalue) ==
    lower_expr_as_place_with_adjust(c, current, e, upgrade_rvalue, Expr(c, e).adj)

lower_expr_to_some_operand(c, e, current) ==
    LET copy(r) == IF Stops(r) THEN r ELSE OkV(r.c, r.b, Copy(r.v))
    IN  IF ~has_adjustments(c, e) /\ Expr(c, e).k = "Literal"
        THEN Exit(OkV(Enter(c, e, current, "operand", NoPlace), current,
                      lower_literal_to_operand(c, e)), e)
        ELSE copy(lower_expr_as_place(c, current, e, TRUE))

(***************************************************************************)
(* Blocks                                                                  *)
(***************************************************************************)
\* push_storage_live(b, current)
push_storage_live(c, b, current) ==
    LET l == c.binding_locals[b]
        dead == [s |-> "StorageDead", place |-> Place(l), rv |-> Rvalue("", "", <<>>),
                 span |-> MirSpanUnknown]
        live == [dead EXCEPT !.s = "StorageLive"]
    IN  push_statement(push_statement(c, current, dead), current, live)

\* Variant: the tail block of an else branch goes on to the matched block.
lower_let_statement_falls_through(c, s, current) ==
    LET x == Expr(c, s)
        diverge(r3, then) ==
            IF IsErr(r3) THEN r3
            ELSE IF r3.b = 0 THEN Ok(r3.c, then)
            ELSE Ok(set_goto(r3.c, r3.b, then), then)
        else(r2) ==
            IF IsErr(r2) THEN r2
            ELSE IF r2.v = 0 THEN Ok(r2.c, r2.b)
            ELSE IF Len(x.kids) = 1
            THEN Ok(set_terminator(r2.c, r2.v, Unreachable), r2.b)
            ELSE diverge(lower_expr_as_place(r2.c, r2.v, Kid(s, 2), TRUE), r2.b)
        init(r1) == IF Stops(r1) THEN r1 ELSE else(pattern_match(r1.c, r1.b, r1.v, x.u))
    IN  IF x.kids = <<>>
        THEN Ok(IF x.l = "Bind" THEN push_storage_live(c, 1, current) ELSE c, current)
        ELSE init(lower_expr_as_place(c, current, Kid(s, 1), TRUE))

\* One Statement::Let { pat, initializer, else_branch }: Expr.u tells whether
\* pat is refutable, child 1 is the initializer, child 2 the else branch, and
\* Expr.l = "Bind" when a pattern without initializer binds binding 1.
lower_let_statement(c, s, current) ==
    LET x == Expr(c, s)
        \* the else branch must diverge: a tail block of it is Unreachable
        diverge(r3, then) ==
            IF IsErr(r3) THEN r3
            ELSE IF r3.b = 0 THEN Ok(r3.c, then)
            ELSE Ok(set_terminator(r3.c, r3.b, Unreachable), then)
        else(r2) ==
            IF IsErr(r2) THEN r2
            ELSE IF r2.v = 0 THEN Ok(r2.c, r2.b)
            ELSE IF Len(x.kids) = 1
            THEN Ok(set_terminator(r2.c, r2.v, Unreachable), r2.b)
            ELSE diverge(lower_expr_as_place(r2.c, r2.v, Kid(s, 2), TRUE), r2.b)
        init(r1) == IF Stops(r1) THEN r1 ELSE else(pattern_match(r1.c, r1.b, r1.v, x.u))
    IN  IF x.kids = <<>>
        THEN Ok(IF x.l = "Bind" THEN push_storage_live(c, 1, current) ELSE c, current)
        ELSE init(lower_expr_as_place(c, current, Kid(s, 1), TRUE))

\* The `for statement in statements.iter()` loop, from statement i on.  The
\* children of a block are its statements ("SLet" or "SExpr"), followed by the
\* tail expression when Expr.u = 1.
RECURSIVE lower_statements(_, _, _, _)
lower_statements(c, e, i, current) ==
    LET next(r) == IF Stops(r) THEN r ELSE lower_statements(r.c, e, i + 1, r.b)
    IN  IF i > Len(Expr(c, e).kids) - Expr(c, e).u THEN Ok(c, current)
        ELSE IF Expr(c, Kid(e, i)).k = "SLet"
        THEN next(lower_let_statement(c, Kid(e, i), current))
        ELSE next(lower_expr_as_place(c, current, Kid(Kid(e, i), 1), TRUE))

lower_block_to_place(c, e, current, place) ==
    LET x == Expr(c, e)
        tail(r) ==
            IF Stops(r) THEN r
            ELSE IF x.u = 1 THEN lower_expr_to_place(r.c, Kid(e, Len(x.kids)), place, r.b)
            ELSE Ok(r.c, r.b)
    IN  tail(lower_statements(c, e, 1, current))

(***************************************************************************)
(* lower_to_mir                                                            *)
(*                                                                         *)
(* owner   [kind, sig_params]: the kind of DefWithBodyId and the number of *)
(*         parameters of the callable signature                            *)
(* body    [root, params, bindings]: the expression tree, the parameter    *)
(*         patterns [bind, subpat, refutable] (bind: the BindingId of a    *)
(*         Pat::Bind, 0 for another pattern) and the binding modes         *)
(* infer   [type_mismatches]: the number of type mismatches                *)
(*                                                                         *)
(* The fields of MirBody (ctx.result) are fields of the context record.    *)
(***************************************************************************)
EmptyMap == [x \in {} |-> 0]

\* The context before lower_to_mir has allocated anything.
Unallocated(ow, bd) ==
    [basic_blocks |-> <<>>, locals |-> <<>>, start_block |-> 0,
     binding_locals |-> EmptyMap, param_locals |-> <<>>, arg_count |-> 0,
     owner |-> ow, body |-> bd,
     current_loop_blocks |-> <<>>, labeled_loop_blocks |-> EmptyMap,
     trace |-> <<>>, writes |-> 0]

Min(a, b) == IF a < b THEN a ELSE b

\* Variant: a parameter whose pattern binds nothing gets no local.
RECURSIVE alloc_params_skips_unbound(_, _, _)
alloc_params_skips_unbound(c, i, n) ==
    IF i > n THEN c
    ELSE IF c.body.params[i].bind = 0 THEN alloc_params_skips_unbound(c, i + 1, n)
    ELSE LET x == c.body.params[i]
             local_id == temp_id(c)
             c1 == temp(c, "param")
             c2 == IF ~x.subpat /\ c.body.bindings[x.bind] \in {"Unannotated", "Mutable"}
                   THEN [c1 EXCEPT !.binding_locals = map_insert(@, x.bind, local_id)]
                   ELSE c1
         IN  alloc_params_skips_unbound([c2 EXCEPT !.param_locals = Append(@, local_id)],
                                        i + 1, n)

\* body.params.iter().zip(callable_sig.params().iter()).map(..).collect()
RECURSIVE alloc_params(_, _, _)
alloc_params(c, i, n) ==
    IF i > n THEN c
    ELSE LET x == c.body.params[i]
             local_id == temp_id(c)
             c1 == temp(c, "param")
             c2 == IF x.bind # 0 /\ ~x.subpat
                      /\ c.body.bindings[x.bind] \in {"Unannotated", "Mutable"}
                   THEN [c1 EXCEPT !.binding_locals = map_insert(@, x.bind, local_id)]
                   ELSE c1
         IN  alloc_params([c2 EXCEPT !.param_locals = Append(@, local_id)], i + 1, n)

\* Variant: a later run visits the bindings in another order than the first.
RECURSIVE alloc_bindings_up(_, _)
alloc_bindings_up(c, id) ==
    IF id > Len(c.body.bindings) THEN c
    ELSE IF id \in DOMAIN c.binding_locals THEN alloc_bindings_up(c, id + 1)
    ELSE alloc_bindings_up([temp(c, "binding") EXCEPT
                               !.binding_locals = map_insert(@, id, temp_id(c))], id + 1)

RECURSIVE alloc_bindings_down(_, _)
alloc_bindings_down(c, id) ==
    IF id < 1 THEN c
    ELSE IF id \in DOMAIN c.binding_locals THEN alloc_bindings_down(c, id - 1)
    ELSE alloc_bindings_down([temp(c, "binding") EXCEPT
                                 !.binding_locals = map_insert(@, id, temp_id(c))], id - 1)

alloc_bindings_in_run_order(c, id) ==
    IF pc = "start" THEN alloc_bindings_up(c, id)
    ELSE alloc_bindings_down(c, Len(c.body.bindings))

\* Variant: every binding gets a fresh local, also one that has its
\* parameter local.
RECURSIVE alloc_bindings_always_fresh(_, _)
alloc_bindings_always_fresh(c, id) ==
    IF id > Len(c.body.bindings) THEN c
    ELSE alloc_bindings_always_fresh(
             [temp(c, "binding") EXCEPT
                 !.binding_locals = map_insert(@, id, temp_id(c))], id + 1)

\* for (id, _) in body.bindings.iter()
RECURSIVE alloc_bindings(_, _)
alloc_bindings(c, id) ==
    IF id > Len(c.body.bindings) THEN c
    ELSE IF id \in DOMAIN c.binding_locals THEN alloc_bindings(c, id + 1)
    ELSE alloc_bindings([temp(c, "binding") EXCEPT
                            !.binding_locals = map_insert(@, id, temp_id(c))], id + 1)

\* for (&param, local) in body.params.iter().zip(param_locals)
RECURSIVE lower_params(_, _, _)
lower_params(c, i, current) ==
    LET x == c.body.params[i]
        local == c.param_locals[i]
        next(r) ==
            IF IsErr(r) THEN r
            ELSE lower_params(IF r.v # 0 THEN set_terminator(r.c, r.v, Unreachable) ELSE r.c,
                              i + 1, r.b)
    IN  IF i > Min(Len(c.body.params), Len(c.param_locals)) THEN Ok(c, current)
        ELSE IF x.bind # 0 /\ local = c.binding_locals[x.bind]
        THEN lower_params(c, i + 1, current)
        ELSE next(pattern_match(c, current, Place(local), x.refutable))

\* Variant: the parameters of the owner are checked before the type mismatches.
lower_to_mir_checks_owner_first(ow, bd, inf) ==
    LET c0 == Unallocated(ow, bd)
        c1 == [c0 EXCEPT !.basic_blocks = <<BasicBlock>>, !.start_block = 1,
                         !.locals = <<"return">>]
        c2 == IF ow.kind = "FunctionId"
              THEN alloc_params(c1, 1, Min(Len(bd.params), ow.sig_params))
              ELSE c1
        finish(r5) ==
            IF IsErr(r5) THEN r5
            ELSE IF r5.b # 0
            THEN Ok([r5.c EXCEPT !.basic_blocks[r5.b].terminator = Return], r5.b)
            ELSE Ok(r5.c, 0)
        c3 == [alloc_bindings(c2, 1) EXCEPT !.arg_count = Len(bd.params)]
    IN  IF ow.kind # "FunctionId" /\ bd.params # <<>>
        THEN Err(c0, "TypeError(Unexpected parameter for non function body)")
        ELSE IF inf.type_mismatches > 0 THEN Err(c0, "TypeMismatch")
        ELSE Only({IF IsErr(r4) THEN r4
                   ELSE finish(lower_expr_to_place(r4.c, <<>>, Place(return_slot), r4.b)) :
                   r4 \in {lower_params(c3, 1, c3.start_block)}})

\* Variant: a root that yields no tail block gets a Return on the start block.
lower_to_mir_returns_from_start(ow, bd, inf) ==
    LET c0 == Unallocated(ow, bd)
        c1 == [c0 EXCEPT !.basic_blocks = <<BasicBlock>>, !.start_block = 1,
                         !.locals = <<"return">>]
        c2 == IF ow.kind = "FunctionId"
              THEN alloc_params(c1, 1, Min(Len(bd.params), ow.sig_params))
              ELSE c1
        finish(r5) ==
            IF IsErr(r5) THEN r5
            ELSE IF r5.b # 0
            THEN Ok([r5.c EXCEPT !.basic_blocks[r5.b].terminator = Return], r5.b)
            ELSE Ok([r5.c EXCEPT !.basic_blocks[r5.c.start_block].terminator = Return], 0)
        c3 == [alloc_bindings(c2, 1) EXCEPT !.arg_count = Len(bd.params)]
    IN  IF inf.type_mismatches > 0 THEN Err(c0, "TypeMismatch")
        ELSE IF ow.kind # "FunctionId" /\ bd.params # <<>>
        THEN Err(c0, "TypeError(Unexpected parameter for non function body)")
        ELSE Only({IF IsErr(r4) THEN r4
                   ELSE finish(lower_expr_to_place(r4.c, <<>>, Place(return_slot), r4.b)) :
                   r4 \in {lower_params(c3, 1, c3.start_block)}})

lower_to_mir(ow, bd, inf) ==
    LET c0 == Unallocated(ow, bd)
        c1 == [c0 EXCEPT !.basic_blocks = <<BasicBlock>>, !.start_block = 1,
                         !.locals = <<"return">>]
        c2 == IF ow.kind = "FunctionId"
              THEN alloc_params(c1, 1, Min(Len(bd.params), ow.sig_params))
              ELSE c1
        \* the tail block of the root gets the Return
        finish(r5) ==
            IF IsErr(r5) THEN r5
            ELSE IF r5.b # 0
            THEN Ok([r5.c EXCEPT !.basic_blocks[r5.b].terminator = Return], r5.b)
            ELSE Ok(r5.c, 0)
        c3 == [alloc_bindings(c2, 1) EXCEPT !.arg_count = Len(bd.params)]
    IN  IF inf.type_mismatches > 0 THEN Err(c0, "TypeMismatch")
        ELSE IF ow.kind # "FunctionId" /\ bd.params # <<>>
        THEN Err(c0, "TypeError(Unexpected parameter for non function body)")
        ELSE Only({IF IsErr(r4) THEN r4
                   ELSE finish(lower_expr_to_place(r4.c, <<>>, Place(return_slot), r4.b)) :
                   r4 \in {lower_params(c3, 1, c3.start_block)}})

(***************************************************************************)
(* The explored bodies: every expression tree of at most MaxNodes nodes    *)
(* over the constructs below.  One binding (id 1) and one label ('a) are   *)
(* enough to reach every case of resolution and shadowing.                 *)
(***************************************************************************)
L == "a"

\* A grammar is a set of templates: nodes whose holes #1, #2, .. are filled
\* with smaller trees.  A template counts as one node.
Hole(i) == Node("Hole", "", i, <<>>)

RECURSIVE Fill(_, _)
Fill(t, subs) ==
    IF t.k = "Hole" THEN subs[t.u]
    ELSE [t EXCEPT !.kids = [i \in DOMAIN t.kids |-> Fill(t.kids[i], subs)]]

RECURSIVE Holes(_)
Holes(t) ==
    IF t.k = "Hole" THEN {t.u} ELSE UNION {Holes(t.kids[i]) : i \in DOMAIN t.kids}

Arity(t) == Cardinality(Holes(t))

RECURSIVE Trees(_, _)
Trees(G, n) ==
    IF n = 1 THEN {t \in G : Arity(t) = 0}
    ELSE {Fill(t, <<a>>) : t \in {g \in G : Arity(g) = 1}, a \in Trees(G, n - 1)}
         \cup UNION {{Fill(t, <<a, b>>) : t \in {g \in G : Arity(g) = 2},
                                         a \in Trees(G, i), b \in Trees(G, n - 1 - i)} :
                        i \in 1..(n - 2)}
         \cup UNION {{Fill(t, <<a, b, d>>) : t \in {g \in G : Arity(g) = 3},
                                            a \in Trees(G, ij[1]), b \in Trees(G, ij[2]),
                                            d \in Trees(G, n - 1 - ij[1] - ij[2])} :
                        ij \in {x \in (1..n) \X (1..n) : x[1] + x[2] <= n - 2}}

MkBody(root) == [root |-> root, params |-> <<>>, bindings |-> <<"Unannotated">>]

\* body is a body whose root is a tree of exactly n nodes of grammar G: the
\* members of Trees(G, n), enumerated without building the set.
BodyOfSize(G, n) ==
    \/ /\ n = 1
       /\ \E t \in Trees(G, 1) : body = MkBody(t)
    \/ /\ n > 1
       /\ \E t \in {g \in G : Arity(g) = 1}, a \in Trees(G, n - 1) :
             body = MkBody(Fill(t, <<a>>))
    \/ \E i \in 1..(n - 2) :
          \E t \in {g \in G : Arity(g) = 2}, a \in Trees(G, i), b \in Trees(G, n - 1 - i) :
              body = MkBody(Fill(t, <<a, b>>))
    \/ \E ij \in {x \in (1..n) \X (1..n) : x[1] + x[2] <= n - 2} :
          \E t \in {g \in G : Arity(g) = 3}, a \in Trees(G, ij[1]), b \in Trees(G, ij[2]),
             d \in Trees(G, n - 1 - ij[1] - ij[2]) :
              body = MkBody(Fill(t, <<a, b, d>>))

Callee == Node("Path", "FunctionId", 0, <<>>)

SExpr(t) == Node("SExpr", "", 0, <<t>>)

Arm(refutable, kids) == Node("Arm", "", refutable, kids)

SLet(refutable, kids) == Node("SLet", "", refutable, kids)

\* Control flow: loops, labels, blocks, break and continue, branches, calls.
ControlFlow ==
    {Node("Literal", "1", 0, <<>>),
     Node("Break", "", 0, <<>>),
     Node("Break", L, 0, <<>>),
     Node("Continue", "", 0, <<>>),
     Node("Return", "", 0, <<>>),
     Node("Call", "FnDef", 1, <<Callee>>),
     Node("Loop", "", 0, <<Hole(1)>>),
     Node("Loop", L, 0, <<Hole(1)>>),
     Node("Block", L, 1, <<Hole(1)>>),
     Node("Block", "", 0, <<SExpr(Hole(1))>>),
     Node("Break", "", 0, <<Hole(1)>>),
     Node("Break", L, 0, <<Hole(1)>>),
     Node("Call", "FnDef", 0, <<Callee, Hole(1)>>),
     Node("Block", "", 1, <<SExpr(Hole(1)), Hole(2)>>),
     Node("While", "", 0, <<Hole(1), Hole(2)>>),
     Node("For", "", 0, <<Hole(1), Hole(2)>>),
     Node("If", "", 0, <<Hole(1), Hole(2)>>),
     Node("Match", "", 0, <<Hole(1), Arm(1, <<Hole(2)>>)>>),
     Node("Block", "", 0, <<SLet(1, <<Hole(1), Hole(2)>>)>>),
     Node("If", "", 0, <<Hole(1), Hole(2), Hole(3)>>),
     Node("Match", "", 0, <<Hole(1), Arm(0, <<Hole(2), Hole(3)>>)>>),
     Node("Match", "", 0, <<Hole(1), Arm(1, <<Hole(2)>>), Arm(0, <<Hole(3)>>)>>)}

Local == Node("Path", "LocalBinding", 1, <<>>)

Field(index, t) == Node("Field", "", index, <<t>>)

\* Operands: the expressions whose sub-expressions are always evaluated, and
\* the calls.
Operands ==
    {Node("Literal", "1", 0, <<>>),
     Local,
     Node("Return", "", 0, <<>>),
     Node("Call", "FnDef", 1, <<Callee>>),
     Node("UnaryOp", "Not", 0, <<Hole(1)>>),
     Node("Cast", "IntToInt", 0, <<Hole(1)>>),
     Node("Ref", "Shared", 0, <<Hole(1)>>),
     Node("Call", "FnDef", 0, <<Callee, Hole(1)>>),
     Node("MethodCall", "", 0, <<Hole(1)>>),
     Node("Return", "", 0, <<Hole(1)>>),
     Node("Loop", "", 0, <<Node("Break", "", 0, <<Hole(1)>>)>>),
     Node("Block", "", 0, <<SLet(0, <<Hole(1)>>)>>),
     Node("Block", L, 0, <<SExpr(Hole(1))>>),
     Node("BinaryOp", "Add", 0, <<Hole(1), Hole(2)>>),
     Node("Tuple", "", 0, <<Hole(1), Hole(2)>>),
     Node("RecordLit", "", 2, <<Field(1, Hole(1)), Field(2, Hole(2))>>),
     Node("If", "", 0, <<Hole(1), Hole(2)>>),
     Node("Match", "", 0, <<Hole(1), Arm(0, <<Hole(2)>>)>>),
     Node("Block", "", 1, <<SExpr(Hole(1)), Hole(2)>>),
     Node("For", "", 0, <<Hole(1), Hole(2)>>)}

\* Matching: matches of zero, one and two arms, refutable or not, guarded or
\* not, over bodies that return a value, diverge, or fail to resolve.
Matching ==
    {Node("Literal", "1", 0, <<>>),
     Local,
     Node("Path", "Unresolved", 0, <<>>),
     Node("Return", "", 0, <<>>),
     Node("Match", "", 0, <<Hole(1)>>),
     Node("Match", "", 0, <<Local, Arm(1, <<Hole(1)>>)>>),
     Node("Match", "", 0, <<Local, Arm(0, <<Hole(1)>>)>>),
     Node("Match", "", 0, <<Hole(1), Arm(1, <<Hole(2)>>)>>),
     Node("Match", "", 0, <<Local, Arm(1, <<Hole(1)>>), Arm(0, <<Hole(2)>>)>>),
     Node("Match", "", 0, <<Local, Arm(0, <<Hole(1)>>), Arm(1, <<Hole(2)>>)>>),
     Node("Match", "", 0, <<Local, Arm(1, <<Hole(1)>>), Arm(1, <<Hole(2)>>)>>),
     Node("Match", "", 0, <<Local, Arm(0, <<Hole(1), Hole(2)>>)>>),
     Node("Match", "", 0, <<Hole(1), Arm(1, <<Hole(2), Hole(3)>>)>>),
     Node("Match", "", 0, <<Local, Arm(0, <<Hole(1), Hole(2)>>), Arm(0, <<Hole(3)>>)>>)}

\* Unsupported: every kind that lower.rs rejects as not supported, alone, as
\* an operand, in a loop, after a statement, and on either side of an
\* assignment.
Unsupported ==
    {Node("Literal", "1", 0, <<>>),
     Local,
     Node("Continue", L, 0, <<>>)}
    \cup {Node(k, "", 0, <<>>) : k \in NotSupportedKinds}
    \cup {Node("Loop", "", 0, <<Hole(1)>>),
          Node("BinaryOp", "Assign", 0, <<Hole(1), Hole(2)>>),
          Node("BinaryOp", "AssignOp", 0, <<Hole(1), Hole(2)>>),
          Node("Tuple", "", 0, <<Hole(1), Hole(2)>>),
          Node("Block", "", 1, <<SExpr(Hole(1)), Hole(2)>>)}

\* Failing: expressions that fail on entry (not supported, unresolved,
\* missing, a constant that cannot be evaluated), one that fails after its
\* operand (a cast of unknown kind), and
\* the constructs that lower them in sequence or on different paths.
Failing ==
    {Node("Literal", "1", 0, <<>>),
     Node("Return", "", 0, <<>>),
     Node("Yield", "", 0, <<>>),
     Node("Path", "Unresolved", 0, <<>>),
     Node("Path", "ConstId", 0, <<>>),
     Node("Path", "ConstId", 1, <<>>),
     Node("Path", "ConstId", 2, <<>>),
     Node("Missing", "", 0, <<>>),
     Node("MethodCall", "Unresolved", 0, <<Hole(1)>>),
     Node("Cast", "Unknown", 0, <<Hole(1)>>),
     Node("Call", "Error", 0, <<Callee, Hole(1)>>),
     Node("Loop", "", 0, <<Hole(1)>>),
     Node("Tuple", "", 0, <<Hole(1), Hole(2)>>),
     Node("If", "", 0, <<Hole(1), Hole(2)>>),
     Node("While", "", 0, <<Hole(1), Hole(2)>>),
     Node("Block", "", 1, <<SExpr(Hole(1)), Hole(2)>>),
     Node("Match", "", 0, <<Hole(1), Arm(1, <<Hole(2)>>)>>),
     Node("If", "", 0, <<Hole(1), Hole(2), Hole(3)>>)}

\* Lets: blocks of a let statement, with a refutable pattern or not, with an
\* else branch or not, with a tail after it or not, over initializers and
\* else branches that yield a value, diverge, or branch.
Lets ==
    {Node("Literal", "1", 0, <<>>),
     Local,
     Node("Return", "", 0, <<>>),
     Node("Block", "", 0, <<SLet(1, <<Hole(1)>>)>>),
     Node("Block", "", 0, <<SLet(1, <<Hole(1), Hole(2)>>)>>),
     Node("Block", "", 1, <<SLet(1, <<Hole(1)>>), Hole(2)>>),
     Node("Block", "", 1, <<SLet(0, <<Hole(1)>>), Hole(2)>>),
     Node("Block", "", 1, <<Node("SLet", "Bind", 0, <<>>), Hole(1)>>),
     Node("If", "", 0, <<Hole(1), Hole(2)>>),
     Node("Block", "", 1, <<SLet(1, <<Hole(1), Hole(2)>>), Hole(3)>>),
     Node("Block", "", 1, <<SLet(0, <<Hole(1), Hole(2)>>), Hole(3)>>),
     Node("Block", "", 0, <<SLet(1, <<Hole(1), Hole(2)>>), SExpr(Hole(3))>>),
     Node("If", "", 0, <<Hole(1), Hole(2), Hole(3)>>)}

\* Logic: the operators && and || over operands that are a literal, a
\* local, another operator, a call that goes on in a new block, a branch, or
\* an expression that diverges.
Logic ==
    {Node("Literal", "1", 0, <<>>),
     Local,
     Node("Return", "", 0, <<>>),
     Node("Call", "FnDef", 0, <<Callee>>),
     Node("Call", "FnDef", 1, <<Callee>>),
     Node("UnaryOp", "Not", 0, <<Hole(1)>>),
     Node("BinaryOp", "And", 0, <<Hole(1), Hole(2)>>),
     Node("BinaryOp", "Or", 0, <<Hole(1), Hole(2)>>),
     Node("If", "", 0, <<Hole(1), Hole(2), Hole(3)>>)}

\* Whiles: while loops, labeled or not, over conditions that are a literal,
\* a local, a call that goes on in a new block, a block that may leave the
\* loop (`{ if x { break 'a; } true }`) or an expression that diverges, and
\* over bodies that yield a value, break, continue, return or nest.
CondBreak ==
    Node("Block", "", 1,
         <<SExpr(Node("If", "", 0, <<Local, Node("Break", L, 0, <<>>)>>)),
           Node("Literal", "1", 0, <<>>)>>)

\* A block whose statement is a while loop: what follows it is lowered after
\* a nested frame was pushed and popped.
AfterWhile ==
    Node("Block", "", 1,
         <<SExpr(Node("While", "", 0, <<Node("Literal", "1", 0, <<>>), Hole(1)>>)),
           Hole(2)>>)

Whiles ==
    {Node("Literal", "1", 0, <<>>),
     Local,
     Node("Return", "", 0, <<>>),
     Node("Break", "", 0, <<>>),
     Node("Break", L, 0, <<>>),
     Node("Continue", "", 0, <<>>),
     Node("Call", "FnDef", 0, <<Callee>>),
     CondBreak,
     AfterWhile,
     Node("Loop", "", 0, <<Hole(1)>>),
     Node("Loop", L, 0, <<Hole(1)>>),
     Node("While", "", 0, <<Hole(1), Hole(2)>>),
     Node("While", L, 0, <<Hole(1), Hole(2)>>),
     Node("If", "", 0, <<Hole(1), Hole(2)>>),
     Node("Block", "", 1, <<SExpr(Hole(1)), Hole(2)>>)}

\* Record literals of a variant with two declared fields: the fields in and
\* out of declared order, omitted with and without a spread base, and under
\* a name that the variant does not declare (index 0).
Records ==
    {Node("Literal", "1", 0, <<>>), Node("Literal", "2", 0, <<>>), Local,
     Node("Return", "", 0, <<>>),
     Node("RecordLit", "", 2, <<Field(1, Hole(1)), Field(2, Hole(2))>>),
     Node("RecordLit", "", 2, <<Field(2, Hole(1)), Field(1, Hole(2))>>),
     Node("RecordLit", "", 2, <<Field(1, Hole(1))>>),
     Node("RecordLit", "", 2, <<Field(2, Hole(1))>>),
     Node("RecordLit", "", 2, <<Field(0, Hole(1))>>),
     Node("RecordLit", "", 2, <<Field(2, Hole(1)), Field(0, Hole(2))>>),
     Node("RecordLit", "Spread", 2, <<Hole(1)>>),
     Node("RecordLit", "Spread", 2, <<Hole(1), Field(1, Hole(2))>>),
     Node("RecordLit", "Spread", 2, <<Hole(1), Field(2, Hole(2))>>),
     Node("RecordLit", "Spread", 2, <<Hole(1), Field(0, Hole(2))>>),
     Node("RecordLit", "Spread", 2, <<Hole(1), Field(2, Hole(2)), Field(1, Hole(3))>>)}

\* The adjustments of the explored bodies; the target type bears the
\* position of the adjustment in its list.
AdjustKinds(target) ==
    {Adjustment("NeverToAny", "", target), Adjustment("Deref", "", target),
     Adjustment("Borrow", "Mut", target), Adjustment("Pointer", "Unsize", target)}

AdjustmentLists ==
    {<<a>> : a \in AdjustKinds("T1") \cup {Adjustment("Borrow", "Not", "T1")}}
    \cup {<<a, b>> : a \in AdjustKinds("T1"), b \in AdjustKinds("T2")}

\* Adjusted expressions: a literal, a local, a return and a block with a
\* tail only, under no, one or two adjustments.
Adjusted ==
    {[t EXCEPT !.adj = a] :
        t \in {Node("Literal", "1", 0, <<>>), Local, Node("Return", "", 0, <<>>)},
        a \in AdjustmentLists \cup {<<>>}}
    \cup {[Node("Block", "", 1, <<Hole(1)>>) EXCEPT !.adj = a] :
             a \in {<<>>} \cup {b \in AdjustmentLists : Len(b) = 1}}

FnOwner == [kind |-> "FunctionId", sig_params |-> 0]

(***************************************************************************)
(* The state machine: one call of lower_to_mir.                            *)
(***************************************************************************)
InitOver(G) ==
    /\ pc = "start"
    /\ owner = FnOwner
    /\ \E n \in 1..MaxNodes : BodyOfSize(G, n)
    /\ infer = [type_mismatches |-> 0]
    /\ ctx = Unallocated(owner, body)
    /\ result = [err |-> "", tail |-> 0]

LowerToMir ==
    /\ pc = "start"
    /\ pc' = "done"
    /\ \E r \in {lower_to_mir(owner, body, infer)} :
           /\ ctx' = r.c
           /\ result' = [err |-> r.err, tail |-> r.b]
    /\ UNCHANGED <<owner, body, infer>>

Next == LowerToMir

Init == InitOver(ControlFlow)

Spec == Init /\ [][Next]_vars

InitOps == InitOver(Operands)

SpecOps == InitOps /\ [][Next]_vars

InitMatch == InitOver(Matching)

SpecMatch == InitMatch /\ [][Next]_vars

InitFailing == InitOver(Failing)

SpecFailing == InitFailing /\ [][Next]_vars

InitLets == InitOver(Lets)

SpecLets == InitLets /\ [][Next]_vars

InitLogic == InitOver(Logic)

SpecLogic == InitLogic /\ [][Next]_vars

InitWhiles == InitOver(Whiles)

SpecWhiles == InitWhiles /\ [][Next]_vars

InitAdjusted == InitOver(Adjusted)

SpecAdjusted == InitAdjusted /\ [][Next]_vars

InitRecords == InitOver(Records)

SpecRecords == InitRecords /\ [][Next]_vars

InitUnsupported == InitOver(Unsupported)

SpecUnsupported == InitUnsupported /\ [][Next]_vars

(***************************************************************************)
(* Signatures: owners that are functions or not, parameter patterns that   *)
(* bind or not, bindings of every mode, inference results with and without *)
(* type mismatches.                                                        *)
(***************************************************************************)
OwnerKinds == {"FunctionId", "ConstId"}

\* BindingAnnotation
Modes == {"Unannotated", "Mutable", "Ref"}

\* The parameter patterns over nb bindings: a pattern that binds nothing at
\* the top (refutable or not), Pat::Bind { id, subpat: None }, and Pat::Bind
\* with a sub-pattern (refutable or not).
Patterns(nb) ==
    {[bind |-> 0, subpat |-> FALSE, refutable |-> r] : r \in {0, 1}}
    \cup {[bind |-> b, subpat |-> FALSE, refutable |-> 0] : b \in 1..nb}
    \cup {[bind |-> b, subpat |-> TRUE, refutable |-> r] : b \in 1..nb, r \in {0, 1}}

\* Every pattern introduces bindings of its own.
OwnBindings(ps) ==
    \A i, j \in DOMAIN ps : (i # j /\ ps[i].bind # 0) => ps[i].bind # ps[j].bind

SigRoots ==
    {Node("Literal", "1", 0, <<>>),
     Local,
     Node("Path", "Unresolved", 0, <<>>),
     Node("Yield", "", 0, <<>>),
     Node("If", "", 0, <<Local, Node("Literal", "1", 0, <<>>), Node("Return", "", 0, <<>>)>>),
     Node("Loop", L, 0, <<Node("Break", L, 0, <<Local>>)>>)}

\* The callable signature of a function has the parameters of its body.
InitSig ==
    /\ pc = "start"
    /\ \E k \in OwnerKinds, n \in 0..MaxParams, nb \in 1..MaxBindings :
          \E ps \in [1..n -> Patterns(nb)], bs \in [1..nb -> Modes], root \in SigRoots :
              /\ OwnBindings(ps)
              /\ owner = [kind |-> k, sig_params |-> IF k = "FunctionId" THEN n ELSE 0]
              /\ body = [root |-> root, params |-> ps, bindings |-> bs]
    /\ infer \in [type_mismatches : 0..MaxMismatches]
    /\ ctx = Unallocated(owner, body)
    /\ result = [err |-> "", tail |-> 0]

\* A second call of lower_to_mir with the arguments of the first.
LowerAgain ==
    /\ pc = "done"
    /\ pc' = "again"
    /\ \E r \in {lower_to_mir(owner, body, infer)} :
           /\ ctx' = r.c
           /\ result' = [err |-> r.err, tail |-> r.b]
    /\ UNCHANGED <<owner, body, infer>>

NextSig == LowerToMir \/ LowerAgain

SpecSig == InitSig /\ [][NextSig]_vars

(***************************************************************************)
(* Properties                                                              *)
(***************************************************************************)
Done == pc = "done"

Succeeded == Done /\ result.err = ""

Blocks == 1..Len(ctx.basic_blocks)

Terminator(b) == ctx.basic_blocks[b].terminator

\* Block b is the target of an edge of block a.
Edge(a, b) == b # 0 /\ (Terminator(a).target = b \/ Terminator(a).otherwise = b)

Trace == ctx.trace

Events == 1..Len(Trace)

\* The node of the body at path e.
Tree(e) == NodeAt(body.root, e)

Front(e) == SubSeq(e, 1, Len(e) - 1)

IsPrefix(p, q) == Len(p) <= Len(q) /\ SubSeq(q, 1, Len(p)) = p

IsEnter(i, k) == Trace[i].ev = "enter" /\ Tree(Trace[i].e).k = k

\* The expression entered at event i has returned before event j.
Closed(i, j) ==
    \E k \in (i + 1)..(j - 1) : Trace[k].ev = "exit" /\ Trace[k].e = Trace[i].e

\* The exit event of the expression entered at event i, 0 when it returned Err.
ExitOf(i) ==
    IF Closed(i, Len(Trace) + 1)
    THEN CHOOSE k \in Events : k > i /\ Trace[k].ev = "exit" /\ Trace[k].e = Trace[i].e
    ELSE 0

\* The enter event of the innermost expression being lowered at event j.
Owner(j) ==
    CHOOSE i \in 1..(j - 1) :
        /\ Trace[i].ev = "enter"
        /\ ~Closed(i, j)
        /\ \A k \in (i + 1)..(j - 1) : Trace[k].ev = "enter" => Closed(k, j)

\* C1: in every body that lower_to_mir returns, every basic block has a
\* terminator, also the blocks that no edge reaches.
C1_AllBlocksTerminated ==
    Succeeded => \A b \in Blocks : Terminator(b).t # "None"

\* A returned body with a block other than the start block that no edge
\* reaches (an end block, a guard fall-through, an otherwise block).
C1_Witness ==
    /\ Succeeded
    /\ \E b \in Blocks : b # ctx.start_block /\ \A a \in Blocks : ~Edge(a, b)

\* The expression whose lowering always evaluates sub-expression e, as <<p>>,
\* or <<>> when e is not such a sub-expression: an operand, a call argument,
\* an element, a condition, a scrutinee, an initializer, a statement, a value.
Enclosing(e) ==
    IF e = <<>> THEN <<>>
    ELSE LET p == Front(e)
             x == Tree(p)
             i == e[Len(e)]
         IN  CASE x.k \in {"SExpr", "Field"} -> <<Front(p)>>
               [] x.k = "SLet" /\ i = 1 -> <<Front(p)>>
               [] x.k \in {"UnaryOp", "BinaryOp", "Cast", "Ref", "Tuple", "Array",
                           "MethodCall", "Break", "Return"} -> <<p>>
               [] x.k = "Call" /\ (i >= 2 \/ x.l # "FnDef") -> <<p>>
               [] x.k \in {"If", "Match", "Let", "For"} /\ i = 1 -> <<p>>
               [] x.k = "RecordLit" /\ x.l = "Spread" /\ i = 1 -> <<p>>
               [] OTHER -> <<>>

\* Event k is the exit with None of an always evaluated sub-expression.
Diverged(k) ==
    Trace[k].ev = "exit" /\ Trace[k].b = 0 /\ Enclosing(Trace[k].e) # <<>>

\* Right after event k the expression p returns None, having written nothing.
ReturnsNoneAt(p, k) ==
    /\ k + 1 \in Events
    /\ Trace[k + 1].ev = "exit"
    /\ Trace[k + 1].e = p
    /\ Trace[k + 1].b = 0
    /\ Trace[k + 1].w = Trace[k].w

\* Right after event k the labeled block p returns the end block its frame
\* allocated up front, having lowered and written nothing more.
ReturnsEndAt(p, k) ==
    /\ k + 2 \in Events
    /\ Trace[k + 1].ev = "lower_loop"
    /\ Trace[k + 1].e = p
    /\ Trace[k + 2].ev = "exit"
    /\ Trace[k + 2].e = p
    /\ Trace[k + 2].b = Trace[k + 1].a + 1
    /\ Trace[k + 2].w = Trace[k].w

LabeledBlock(p) == Tree(p).k = "Block" /\ Tree(p).l # ""

LoopReturns == {i \in Events : Trace[i].ev = "lower_loop" /\ Tree(Trace[i].e).k = "Loop"}

\* A break that targets the frame of the loop was lowered in its body.
BreakTargets(i) ==
    \E j \in 1..(i - 1) : Trace[j].ev = "break" /\ Trace[j].a = Trace[i].a

\* The caller of lower_loop receives what lower_loop returned.
CallerReceives(i) ==
    /\ i + 1 \in Events
    /\ Trace[i + 1].ev = "exit"
    /\ Trace[i + 1].e = Trace[i].e
    /\ Trace[i + 1].b = Trace[i].b

ReturnExprSet(b) ==
    \E j \in Events : Trace[j].ev = "set_terminator" /\ Trace[j].b = b /\ Trace[j].y = "Return"

\* C4: the tail block that lowering the root yields ends in Return, set by
\* lower_to_mir; when the root yields None no block gets a Return other than
\* those of the `return` expressions.
C4_ReturnOnRootTail ==
    Succeeded =>
        /\ Trace[Len(Trace)].ev = "exit"
        /\ Trace[Len(Trace)].e = <<>>
        /\ Trace[Len(Trace)].b = result.tail
        /\ result.tail # 0 => Terminator(result.tail) = Return /\ ~ReturnExprSet(result.tail)
        /\ \A b \in Blocks :
              (Terminator(b).t = "Return" /\ b # result.tail) => ReturnExprSet(b)

\* The root yields None and the body has no Return at all (as for `loop {}`).
C4_Witness ==
    /\ Succeeded
    /\ result.tail = 0
    /\ \A b \in Blocks : Terminator(b).t # "Return"

\* The events that set a Call terminator.
CallsSet == {j \in Events : Trace[j].ev = "set_terminator" /\ Trace[j].y = "Call"}

\* The call of event j diverges: it belongs to a call expression whose type
\* is uninhabited.
DivergingCall(j) ==
    LET x == Tree(Trace[Owner(j)].e)
    IN  x.k \in {"Call", "MethodCall"} /\ x.u = 1

\* The target of the call of event j is a block allocated for it.
FreshTarget(j) ==
    /\ Trace[j].a = Trace[j].n
    /\ Trace[j - 1].n < Trace[j].n

\* The target of the call of event j is where the caller goes on: a call
\* expression returns it, a for loop writes its next terminator there.
Continuation(j) ==
    LET o == Owner(j)
    IN  IF Tree(Trace[o].e).k = "For"
        THEN /\ Trace[j + 1].ev = "set_terminator"
             /\ Trace[j + 1].b = Trace[j].a
        ELSE /\ Trace[j + 1].ev = "exit"
             /\ Trace[j + 1].e = Trace[o].e
             /\ Trace[j + 1].b = Trace[j].a

\* C5: in a returned body a Call of an uninhabited type has no target and its
\* lowering returns None; every other Call, those of a for loop included, has
\* a fresh block as target, which is the continuation the caller receives.
C5_CallTargets ==
    Succeeded =>
        /\ \A b \in Blocks :
              Terminator(b).t = "Call" => \E j \in CallsSet : Trace[j].b = b
        /\ \A j \in CallsSet :
              /\ Terminator(Trace[j].b).t = "Call"
              /\ Terminator(Trace[j].b).target = Trace[j].a
              /\ IF DivergingCall(j)
                 THEN /\ Trace[j].a = 0
                      /\ Trace[j + 1].ev = "exit"
                      /\ Trace[j + 1].e = Trace[Owner(j)].e
                      /\ Trace[j + 1].b = 0
                 ELSE Trace[j].a # 0 /\ FreshTarget(j) /\ Continuation(j)

\* A returned body with a diverging call and the two calls of a for loop.
C5_Witness ==
    /\ Succeeded
    /\ \E j \in CallsSet : DivergingCall(j)
    /\ \E j \in CallsSet : Tree(Trace[Owner(j)].e).k = "For"

\* The matches that were entered, and the events of the arms that were tried.
Matches == {i \in Events : IsEnter(i, "Match")}

ArmsTried(i) == {j \in Events : Trace[j].ev = "arm" /\ Front(Trace[j].e) = Trace[i].e}

\* The exit event of the scrutinee of match i, 0 when it returned Err.
ScrutineeExit(i) == ExitOf(i + 1)

\* The arm of event j starts where the arm before it fell through, the first
\* arm where the scrutinee ended.
StartsInOtherwise(i, j) ==
    LET q == Trace[j].e[Len(Trace[j].e)]
    IN  IF q = 2 THEN Trace[j].b = Trace[ScrutineeExit(i)].b
        ELSE \E h \in ArmsTried(i) :
                /\ h < j
                /\ Trace[h].e = Append(Trace[i].e, q - 1)
                /\ Trace[h].a # 0
                /\ Trace[h].a = Trace[j].b

\* Nothing of the arms after the arm of event j was lowered, and up to the
\* exit of match i the only new block is the shared end block.
NoLaterArm(i, j) ==
    /\ \A k \in Events :
          ~(/\ Len(Trace[k].e) > Len(Trace[i].e)
            /\ IsPrefix(Trace[i].e, Trace[k].e)
            /\ Trace[k].e[Len(Trace[i].e) + 1] > Trace[j].e[Len(Trace[j].e)])
    /\ \A b \in Blocks : \A n \in DOMAIN ctx.basic_blocks[b].statements :
          LET span == ctx.basic_blocks[b].statements[n].span
          IN  ~(/\ Len(span) > Len(Trace[i].e)
                /\ IsPrefix(Trace[i].e, span)
                /\ span[Len(Trace[i].e) + 1] > Trace[j].e[Len(Trace[j].e)])
    /\ ExitOf(i) # 0 =>
       LET body_exit == CHOOSE k \in Events :
                            /\ Trace[k].ev = "exit"
                            /\ Front(Trace[k].e) = Trace[j].e
                            /\ Trace[k].e[Len(Trace[k].e)] = Len(Tree(Trace[j].e).kids)
       IN  Trace[ExitOf(i)].n <= Trace[body_exit].n + 1

\* The block where the arms of match i fell through.
FallThrough(i) ==
    IF ArmsTried(i) = {} THEN Trace[ScrutineeExit(i)].b
    ELSE Trace[CHOOSE j \in ArmsTried(i) : \A h \in ArmsTried(i) : h <= j].a

\* C6: the arms of a match are tried in source order, each in the otherwise
\* block of the arm before; after an unguarded irrefutable arm no later arm
\* contributes a block, a statement or an error; the block where the last
\* tried arm falls through ends in Unreachable.
C6_ArmsInOrder ==
    Done => \A i \in Matches :
        /\ \A j \in ArmsTried(i) :
              /\ StartsInOtherwise(i, j)
              /\ \A h \in ArmsTried(i) :
                    h < j <=> Trace[h].e[Len(Trace[h].e)] < Trace[j].e[Len(Trace[j].e)]
              /\ (Trace[j].a = 0 /\ Len(Tree(Trace[j].e).kids) = 1) => NoLaterArm(i, j)
        /\ (ExitOf(i) # 0 /\ FallThrough(i) # 0) =>
              Terminator(FallThrough(i)) = Unreachable

\* A match whose irrefutable first arm is followed by an arm whose body would
\* fail to resolve.
C6_Witness ==
    /\ Succeeded
    /\ \E i \in Matches : \E j \in ArmsTried(i) :
          /\ Trace[j].a = 0
          /\ Len(Tree(Trace[i].e).kids) > Trace[j].e[Len(Trace[j].e)]
          /\ Tree(Append(Trace[i].e, 3)).kids[1].l = "Unresolved"

\* The exit events of the arm bodies of match i.
BodyExits(i) ==
    {k \in Events : /\ Trace[k].ev = "exit"
                    /\ \E j \in ArmsTried(i) :
                          Trace[k].e = Append(Trace[j].e, Len(Tree(Trace[j].e).kids))}

\* C7: a match lowers its scrutinee once, into the one place every pattern
\* test reads; every arm body is lowered to the destination of the match; an
\* arm body that yields a tail block ends in a Goto to the block the match
\* returns; the match returns None exactly when no arm body yields a tail.
C7_SharedEnd ==
    Done => \A i \in Matches :
        /\ Cardinality({k \in Events : Trace[k].ev = "enter"
                                          /\ Trace[k].e = Append(Trace[i].e, 1)}) = 1
        /\ \A j \in ArmsTried(i) :
              /\ \A h \in ArmsTried(i) : Trace[h].v = Trace[j].v
              /\ Trace[i + 1].x = "to_place" => Trace[j].v = Trace[i + 1].v
              /\ Tree(Trace[j].e).u = 1 =>
                    /\ Terminator(Trace[j].b).t = "SwitchInt"
                    /\ Terminator(Trace[j].b).ops = <<Copy(Trace[j].v)>>
              /\ \A k \in Events :
                    (/\ Trace[k].ev = "enter"
                     /\ Trace[k].e = Append(Trace[j].e, Len(Tree(Trace[j].e).kids)))
                    => Trace[k].v = Trace[i].v
        /\ ExitOf(i) # 0 =>
              /\ \A k \in BodyExits(i) :
                    Trace[k].b # 0 => /\ Trace[ExitOf(i)].b # 0
                                      /\ Terminator(Trace[k].b) = Goto(Trace[ExitOf(i)].b)
              /\ Trace[ExitOf(i)].b = 0 <=> (\A k \in BodyExits(i) : Trace[k].b = 0)

\* A match with two arm bodies that both yield a tail block.
C7_Witness ==
    /\ Succeeded
    /\ \E i \in Matches :
          Cardinality({k \in BodyExits(i) : Trace[k].b # 0}) = 2

\* An unlabeled continue (C8) or break (C9) entered outside every frame.
OutsideFrame(i, k) == IsEnter(i, k) /\ Tree(Trace[i].e).l = "" /\ Trace[i].a = 0

\* C8: an unlabeled continue outside every frame fails with
\* ContinueWithoutLoop, having set no terminator.
C8_ContinueWithoutLoop ==
    Done => \A i \in Events :
        OutsideFrame(i, "Continue") =>
            /\ i = Len(Trace)
            /\ result.err = "ContinueWithoutLoop"
            /\ ctx.writes = Trace[i].w
            /\ Terminator(Trace[i].b).t = "None"

\* A continue outside every frame, after a loop that was lowered before it.
C8_Witness ==
    /\ Done
    /\ \E i \in Events : OutsideFrame(i, "Continue")
    /\ \E i \in Events : Trace[i].ev = "lower_loop"

\* C9: an unlabeled break outside every frame, with or without a value, fails
\* with BreakWithoutLoop.
C9_BreakWithoutLoop ==
    Done => \A i \in Events :
        OutsideFrame(i, "Break") => result.err = "BreakWithoutLoop"

\* A loop or block labeled l encloses expression e (the iterable of a for
\* loop is outside the loop).
Encloses(l, e) ==
    \E n \in 0..(Len(e) - 1) :
        LET x == Tree(SubSeq(e, 1, n))
        IN  /\ x.k \in {"Loop", "While", "For", "Block"}
            /\ x.l = l
            /\ x.k = "For" => e[n + 1] = 2

\* C10: a break with a label that no enclosing loop or block under lowering
\* bears fails with UnresolvedLabel, also when the label is that of a loop
\* whose lowering has finished.
C10_UnresolvedLabel ==
    Done => \A i \in Events :
        (/\ IsEnter(i, "Break")
         /\ Tree(Trace[i].e).l # ""
         /\ ~Encloses(Tree(Trace[i].e).l, Trace[i].e))
        => result.err = "UnresolvedLabel"

\* The Goto by which lower_loop, before event j, entered the begin block of
\* its frame: the first terminator that targets it.
LoopPush(j) ==
    CHOOSE k \in 1..(j - 1) :
        /\ Trace[k].ev = "set_terminator" /\ Trace[k].a = Trace[j].a
        /\ \A h \in 1..(k - 1) :
              ~(Trace[h].ev = "set_terminator" /\ Trace[h].a = Trace[j].a)

\* The last event before lower_loop pushed the frame it returns from at event j.
BeforeLoop(j) == Trace[LoopPush(j) - 1]

\* C11: when lower_loop returns, current_loop_blocks is the frame that was
\* current before the call, its end block included, and a label that the
\* loop shadowed maps to the frame it had before; no frame is left when
\* lower_to_mir returns.
C11_FrameRestored ==
    Done =>
        /\ \A j \in Events :
              Trace[j].ev = "lower_loop" =>
                  /\ Trace[j].f = BeforeLoop(j).f
                  /\ Trace[j].x \in DOMAIN BeforeLoop(j).m =>
                        /\ Trace[j].x \in DOMAIN Trace[j].m
                        /\ Trace[j].m[Trace[j].x] = BeforeLoop(j).m[Trace[j].x]
        /\ Succeeded => ctx.current_loop_blocks = <<>>

\* A labeled loop returns inside a frame that had its end block, having
\* shadowed the label of another frame; and a loop returns at top level.
C11_Witness ==
    /\ Succeeded
    /\ \E j \in Events :
          /\ Trace[j].ev = "lower_loop"
          /\ Trace[j].x \in DOMAIN BeforeLoop(j).m
          /\ BeforeLoop(j).f # <<>>
          /\ BeforeLoop(j).f[1].end # 0
          /\ BeforeLoop(j).m[Trace[j].x].begin # Trace[j].a
    /\ \E j \in Events : Trace[j].ev = "lower_loop" /\ BeforeLoop(j).f = <<>>

Bindings == 1..Len(body.bindings)

\* Binding b is a plain parameter binding: parameter i is Pat::Bind { id: b,
\* subpat: None } and its mode is Unannotated or Mutable.
PlainParam(b, i) ==
    /\ i \in 1..Len(ctx.param_locals)
    /\ body.params[i].bind = b
    /\ ~body.params[i].subpat
    /\ body.bindings[b] \in {"Unannotated", "Mutable"}

\* C12: in a returned body binding_locals is defined for every binding and
\* injective; a plain parameter binding has the local of its parameter, any
\* other binding a local allocated after those of the parameters.
C12_BindingLocals ==
    Succeeded =>
        /\ DOMAIN ctx.binding_locals = Bindings
        /\ \A a, b \in Bindings :
              a # b => ctx.binding_locals[a] # ctx.binding_locals[b]
        /\ \A b \in Bindings :
              /\ ctx.binding_locals[b] \in 1..(Len(ctx.locals) - 1)
              /\ \A i \in 1..Len(ctx.param_locals) :
                    PlainParam(b, i) => ctx.binding_locals[b] = ctx.param_locals[i]
              /\ (\A i \in 1..Len(ctx.param_locals) : ~PlainParam(b, i))
                    => ctx.binding_locals[b] > Len(ctx.param_locals)

\* A returned body with a plain parameter binding and another binding.
C12_Witness ==
    /\ Succeeded
    /\ \E a, b \in Bindings :
          /\ \E i \in 1..Len(ctx.param_locals) : PlainParam(a, i)
          /\ \A i \in 1..Len(ctx.param_locals) : ~PlainParam(b, i)
          /\ \E i \in 1..Len(ctx.param_locals) : body.params[i].bind = b

C15_TypeMismatchFirst ==
    (Done /\ infer.type_mismatches > 0) =>
        /\ result.err = "TypeMismatch"
        /\ ctx.basic_blocks = <<>>
        /\ ctx.locals = <<>>
        /\ ctx.trace = <<>>
        /\ ctx = Unallocated(owner, body)

\* A type mismatch in a body that has parameters without being a function
\* and whose root is not supported.
C15_Witness ==
    /\ Done
    /\ infer.type_mismatches > 0
    /\ owner.kind # "FunctionId"
    /\ body.params # <<>>
    /\ body.root.k = "Yield"

RECURSIVE PathsFrom(_, _)
PathsFrom(t, p) ==
    {p} \cup UNION {PathsFrom(t.kids[i], Append(p, i)) : i \in DOMAIN t.kids}

Paths == PathsFrom(body.root, <<>>)

\* Expression e was lowered towards a place.
Entered(e) == \E i \in Events : Trace[i].ev = "enter" /\ Trace[i].e = e

\* Expression e is the left-hand side of an assignment that was lowered: it
\* was handed to lower_expr_as_place, which may not put it in a temporary.
AssignedTo(e) ==
    /\ e # <<>>
    /\ e[Len(e)] = 1
    /\ Tree(Front(e)).k = "BinaryOp"
    /\ Tree(Front(e)).l = "Assign"
    /\ Entered(Front(e))

\* The kinds that are not supported, and the error each is rejected with.
IsUnsupported(x) ==
    \/ x.k \in NotSupportedKinds
    \/ x.k = "Continue" /\ x.l # ""
    \/ x.k = "BinaryOp" /\ x.l = "AssignOp"

NotSupported(x) ==
    CASE x.k = "Continue" -> "NotSupported(continue with label)"
      [] x.k = "BinaryOp" -> "NotSupported(assignment with arith op (like +=))"
      [] OTHER -> "NotSupported(" \o x.k \o ")"

\* Lowering ended at the enter event of expression e, which wrote nothing.
FailedOnEntry(e) ==
    /\ Trace # <<>>
    /\ Trace[Len(Trace)].ev = "enter"
    /\ Trace[Len(Trace)].e = e
    /\ Trace[Len(Trace)].w = ctx.writes
    /\ Trace[Len(Trace)].n = Len(ctx.basic_blocks)

\* C16 as stated: an expression of a kind that is not supported fails with
\* NotSupported whenever it is handed to lowering, and lower_to_mir returns
\* that error.
C16_NotSupported ==
    Done => \A e \in Paths :
        (IsUnsupported(Tree(e)) /\ (Entered(e) \/ AssignedTo(e)))
            => result.err = NotSupported(Tree(e))

\* C16, amended: an expression of a kind that is not supported fails with
\* NotSupported on entry, having written nothing, and lower_to_mir returns
\* that error; as the left-hand side of an assignment it is rejected with
\* MutatingRvalue before it is entered.
C16_NotSupportedOrRvalue ==
    Done => \A e \in Paths :
        IsUnsupported(Tree(e)) =>
            /\ Entered(e) => result.err = NotSupported(Tree(e)) /\ FailedOnEntry(e)
            /\ (AssignedTo(e) /\ ~Entered(e)) =>
                  result.err = "MutatingRvalue" /\ FailedOnEntry(Front(e))
            /\ (Entered(e) \/ AssignedTo(e)) => ~Succeeded

\* An underscore on the right-hand side of an assignment to a local is
\* rejected as not supported.
C16_Witness ==
    /\ Done
    /\ \E e \in Paths :
          /\ Tree(e).k = "Underscore"
          /\ Entered(e)
          /\ e # <<>> /\ e[Len(e)] = 2 /\ Tree(Front(e)).l = "Assign"
          /\ result.err = "NotSupported(Underscore)"

\* The error with which the arm of expression x fails on entry, "" when it
\* has none.
EntryError(x) ==
    CASE x.k = "Yield" -> "NotSupported(Yield)"
      [] x.k = "Missing" -> "IncompleteExpr"
      [] x.k = "Path" /\ x.l = "Unresolved" -> "UnresolvedName"
      [] x.k = "Path" /\ x.l = "ConstId" /\ x.u = 1 -> "TypeMismatch"
      [] x.k = "Path" /\ x.l = "ConstId" /\ x.u = 2 -> "ConstEvalError(MirEvalError)"
      [] x.k = "MethodCall" /\ x.l = "Unresolved" -> "UnresolvedMethod"
      [] x.k = "Call" /\ x.l = "Error" -> "MissingFunctionDefinition"
      [] OTHER -> ""

\* The error with which the arm of x fails once its operand has a value.
OperandError(x) ==
    IF x.k = "Cast" /\ x.l = "Unknown" THEN "NotSupported(Unknown cast)" ELSE ""

\* The expression entered at event i has not returned.
Open(i) == Trace[i].ev = "enter" /\ ~Closed(i, Len(Trace) + 1)

\* The enter event of the innermost expression that has not returned.
Failed == CHOOSE i \in Events : Open(i) /\ \A j \in (i + 1)..Len(Trace) : ~Open(j)

\* C17: when a lowering step fails, lower_to_mir returns the error of that
\* step: the failing expression is the last thing lowered, nothing is written
\* after it, no expression around it returns, and no expression that fails
\* was lowered before it; a body is returned only if no step failed.
C17_FirstErrorReturned ==
    Done =>
        /\ result.err # "" =>
              /\ \E i \in Events : Open(i)
              /\ \A i \in Events : Open(i) => IsPrefix(Trace[i].e, Trace[Failed].e)
              /\ Trace[Len(Trace)].w = ctx.writes
              /\ Trace[Len(Trace)].n = Len(ctx.basic_blocks)
              /\ IF EntryError(Tree(Trace[Failed].e)) # ""
                 THEN /\ result.err = EntryError(Tree(Trace[Failed].e))
                      /\ Failed = Len(Trace)
                 ELSE /\ result.err = OperandError(Tree(Trace[Failed].e))
                      /\ Trace[Len(Trace)].ev = "exit"
                      /\ Trace[Len(Trace)].e = Kid(Trace[Failed].e, 1)
                      /\ Trace[Len(Trace)].b # 0
        /\ \A i \in Events :
              (Trace[i].ev = "enter" /\ EntryError(Tree(Trace[i].e)) # "")
                  => result.err # "" /\ i = Failed
        /\ \A i \in Events :
              (Trace[i].ev = "enter" /\ OperandError(Tree(Trace[i].e)) # "")
                  => \/ result.err # "" /\ IsPrefix(Trace[i].e, Trace[Failed].e)
                     \/ \E k \in Events : /\ Trace[k].ev = "exit"
                                           /\ Trace[k].e = Kid(Trace[i].e, 1)
                                           /\ Trace[k].b = 0
        /\ Succeeded => \A i \in Events : ~Open(i)

\* A failure in an expression lowered after another one has returned, inside
\* a third, with a later expression that would fail as well.
C17_Witness ==
    /\ Done
    /\ result.err = "UnresolvedName"
    /\ Trace[Failed].e # <<>>
    /\ \E i \in Events : Trace[i].ev = "exit" /\ Trace[i].b # 0
    /\ \E e \in Paths : EntryError(Tree(e)) # "" /\ ~Entered(e)

\* The let statements with an initializer, as paths.
LetStatements == {p \in Paths : Tree(p).k = "SLet" /\ Tree(p).kids # <<>>}

\* Event j is the return of the initializer of let statement p with a value.
Initialized(p, j) == Trace[j].ev = "exit" /\ Trace[j].e = Kid(p, 1) /\ Trace[j].b # 0

\* Event k sets Unreachable on block b, which had no terminator.
SetsUnreachable(k, b) ==
    /\ k \in Events
    /\ Trace[k].ev = "set_terminator"
    /\ Trace[k].b = b
    /\ Trace[k].x = "None"
    /\ Trace[k].y = "Unreachable"
    /\ Terminator(b) = Unreachable

\* The expression lowered after let statement p: that of the next statement,
\* or the tail.
Following(p) ==
    LET next == Kid(Front(p), p[Len(p)] + 1)
    IN  IF Tree(next).k \in {"SExpr", "SLet"} THEN Kid(next, 1) ELSE next

\* At event k lowering goes on after let statement p in block b: with what
\* follows it, or with the return of the block that it ends.
Continues(p, k, b) ==
    /\ k \in Events
    /\ Trace[k].b = b
    /\ IF p[Len(p)] < Len(Tree(Front(p)).kids)
       THEN Trace[k].ev = "enter" /\ Trace[k].e = Following(p)
       ELSE Trace[k].ev = "exit" /\ Trace[k].e = Front(p)

\* The block where the pattern of the let initialized at event j did not
\* match: the second target of the SwitchInt that tests it.
Otherwise(j) == Terminator(Trace[j].b).otherwise

\* C18: a let whose pattern match yields an otherwise block tests the
\* initializer with a SwitchInt; without an else branch the otherwise block
\* becomes Unreachable; with one, the else branch is lowered from the
\* otherwise block and a tail block it yields becomes Unreachable; what
\* follows the let is lowered from the matched block only.  A let whose
\* pattern always matches goes on in the block of its initializer and its
\* else branch is not lowered.
C18_LetElse ==
    Done => \A p \in LetStatements : \A j \in Events :
        Initialized(p, j) =>
            IF Tree(p).u = 0
            THEN /\ Continues(p, j + 1, Trace[j].b)
                 /\ ~Entered(Kid(p, 2))
            ELSE /\ Trace[j + 1].ev = "set_terminator"
                 /\ Trace[j + 1].b = Trace[j].b
                 /\ Trace[j + 1].y = "SwitchInt"
                 /\ Otherwise(j) \notin {0, Trace[j + 1].a}
                 /\ IF Len(Tree(p).kids) = 1
                    THEN /\ SetsUnreachable(j + 2, Otherwise(j))
                         /\ Continues(p, j + 3, Trace[j + 1].a)
                    ELSE /\ Trace[j + 2].ev = "enter"
                         /\ Trace[j + 2].e = Kid(p, 2)
                         /\ Trace[j + 2].b = Otherwise(j)
                         /\ ExitOf(j + 2) # 0 =>
                               IF Trace[ExitOf(j + 2)].b # 0
                               THEN /\ SetsUnreachable(ExitOf(j + 2) + 1,
                                                       Trace[ExitOf(j + 2)].b)
                                    /\ Continues(p, ExitOf(j + 2) + 2, Trace[j + 1].a)
                               ELSE Continues(p, ExitOf(j + 2) + 1, Trace[j + 1].a)

\* A returned body with a let-else whose else branch yields a tail block,
\* followed by a tail expression.
C18_Witness ==
    /\ Succeeded
    /\ \E p \in LetStatements : \E j \in Events :
          /\ Initialized(p, j)
          /\ Tree(p).u = 1
          /\ Len(Tree(p).kids) = 2
          /\ ExitOf(j + 2) # 0
          /\ Trace[ExitOf(j + 2)].b # 0
          /\ p[Len(p)] < Len(Tree(Front(p)).kids)

\* The frame that a break with this label targets at event k: the innermost
\* active frame without a label, the frame registered under the label with one.
FrameAt(k, label) ==
    IF label = "" THEN Trace[k].f ELSE map_get(Trace[k].m, label)

\* The break expressions entered while the frame they target exists.
Breaks == {i \in Events : IsEnter(i, "Break") /\ FrameAt(i, Tree(Trace[i].e).l) # <<>>}

\* From event k on, the break entered at event i sets Goto from block current
\* to the end block of the frame it targets and returns None.
GoesToEnd(i, k, current) ==
    LET label == Tree(Trace[i].e).l
        frame == FrameAt(i, label)[1]
        before == FrameAt(k - 1, label)
    IN  /\ before # <<>>
        /\ before[1].begin = frame.begin
        /\ before[1].place = frame.place
        /\ Trace[k].ev = "break"
        /\ Trace[k].a = frame.begin
        /\ IF before[1].end # 0
           THEN Trace[k].b = before[1].end /\ Trace[k].n = Trace[k - 1].n
           ELSE Trace[k].b = Trace[k].n /\ Trace[k].n = Trace[k - 1].n + 1
        /\ Trace[k + 1].ev = "set_terminator"
        /\ Trace[k + 1].b = current
        /\ Trace[k + 1].a = Trace[k].b
        /\ Trace[k + 1].y = "Goto"
        /\ FrameAt(k + 1, label)[1] = [frame EXCEPT !.end = Trace[k].b]
        /\ Trace[k + 2].ev = "exit"
        /\ Trace[k + 2].e = Trace[i].e
        /\ Trace[k + 2].b = 0
        /\ Trace[k + 2].w = Trace[k].w + 1

\* C19: a break with a value lowers the value into the place of the frame it
\* targets, the innermost active frame without a label and the frame
\* registered under the label with one, sets Goto from the block the value
\* yields to the end block of that frame and returns None; when the value
\* diverges the break returns None at once.  A break without a value sets
\* the Goto from its own block and writes nothing else.
C19_BreakValue ==
    Done => \A i \in Breaks :
        IF Tree(Trace[i].e).kids = <<>>
        THEN GoesToEnd(i, i + 1, Trace[i].b)
        ELSE /\ Trace[i + 1].ev = "enter"
             /\ Trace[i + 1].e = Kid(Trace[i].e, 1)
             /\ Trace[i + 1].b = Trace[i].b
             /\ Trace[i + 1].x = "to_place"
             /\ Trace[i + 1].v = FrameAt(i, Tree(Trace[i].e).l)[1].place
             /\ ExitOf(i + 1) # 0 =>
                   IF Trace[ExitOf(i + 1)].b # 0
                   THEN GoesToEnd(i, ExitOf(i + 1) + 1, Trace[ExitOf(i + 1)].b)
                   ELSE /\ Trace[ExitOf(i + 1) + 1].ev = "exit"
                        /\ Trace[ExitOf(i + 1) + 1].e = Trace[i].e
                        /\ Trace[ExitOf(i + 1) + 1].b = 0

\* A returned body where a labeled break with a value leaves an outer loop
\* from inside an inner one, whose place is another.
C19_Witness ==
    /\ Succeeded
    /\ \E i \in Breaks :
          /\ Tree(Trace[i].e).l # ""
          /\ Tree(Trace[i].e).kids # <<>>
          /\ Trace[i].f # FrameAt(i, Tree(Trace[i].e).l)
          /\ Trace[i].f[1].place # Trace[i + 1].v
          /\ ExitOf(i + 1) # 0
          /\ Trace[ExitOf(i + 1)].b # 0

\* The && and || expressions entered.
LogicOps ==
    {i \in Events : IsEnter(i, "BinaryOp") /\ Tree(Trace[i].e).l \in {"And", "Or"}}

\* The operand that lower_expr_to_some_operand returns for the expression
\* entered at event j: the constant of a literal, else a copy of its place.
OperandOf(j) ==
    CASE Trace[j].x = "operand" -> Constant(Tree(Trace[j].e).l)
      [] Trace[j].x = "as_place" -> Copy(Place(ctx.binding_locals[Tree(Trace[j].e).u]))
      [] OTHER -> Copy(Trace[j].v)

\* The assignments that bear the span of expression e, as <<block, index>>.
AssignmentsOf(e) ==
    {s \in Blocks \X (1..ctx.writes) :
        /\ s[2] <= Len(ctx.basic_blocks[s[1]].statements)
        /\ ctx.basic_blocks[s[1]].statements[s[2]].s = "Assign"
        /\ ctx.basic_blocks[s[1]].statements[s[2]].span = e}

\* Operand n of the operator entered at event i starts at event j in block b,
\* the operator having written nothing and made no block since event j - 1.
StartsOperand(i, n, j, b) ==
    /\ j \in Events
    /\ Trace[j].ev = "enter"
    /\ Trace[j].e = Kid(Trace[i].e, n)
    /\ Trace[j].b = b
    /\ Trace[j].w = Trace[j - 1].w
    /\ Trace[j].n = Trace[j - 1].n

\* After its right operand returned at event k, the operator entered at event
\* i whose operands started at events j1 and j2 writes its one assignment,
\* and nothing else, and returns the block of the right operand.
AssignsChecked(i, j1, j2, k) ==
    /\ Trace[k + 1].ev = "exit"
    /\ Trace[k + 1].e = Trace[i].e
    /\ Trace[k + 1].b = Trace[k].b
    /\ Trace[k + 1].w = Trace[k].w + 1
    /\ Trace[k + 1].n = Trace[k].n
    /\ \E s \in AssignmentsOf(Trace[i].e) :
          /\ AssignmentsOf(Trace[i].e) = {s}
          /\ s[1] = Trace[k].b
          /\ ctx.basic_blocks[s[1]].statements[s[2]] =
                Assign(Trace[i].v,
                       Rvalue("CheckedBinaryOp",
                              IF Tree(Trace[i].e).l = "And" THEN "BitAnd" ELSE "BitOr",
                              <<OperandOf(j1), OperandOf(j2)>>),
                       Trace[i].e)

\* Both operands of the operator entered at event i are lowered, the left one
\* from the block of the operator and the right one from the block the left
\* one yields, and the assignment follows.
LowersBoth(i) ==
    /\ StartsOperand(i, 1, i + 1, Trace[i].b)
    /\ ExitOf(i + 1) # 0
    /\ Trace[ExitOf(i + 1)].b # 0
    /\ StartsOperand(i, 2, ExitOf(i + 1) + 1, Trace[ExitOf(i + 1)].b)
    /\ ExitOf(ExitOf(i + 1) + 1) # 0
    /\ Trace[ExitOf(ExitOf(i + 1) + 1)].b # 0
    /\ AssignsChecked(i, i + 1, ExitOf(i + 1) + 1, ExitOf(ExitOf(i + 1) + 1))

\* The operator entered at event i returns None at event k, having written
\* nothing since its operand returned None.
ReturnsNone(i, k) ==
    /\ Trace[k].ev = "exit"
    /\ Trace[k].e = Trace[i].e
    /\ Trace[k].b = 0
    /\ Trace[k].w = Trace[k - 1].w
    /\ Trace[k].n = Trace[k - 1].n
    /\ AssignmentsOf(Trace[i].e) = {}

\* C20 as stated: in a lowered body both operands of every && and || are
\* lowered, left before right on one path, and one CheckedBinaryOp of BitAnd
\* or BitOr is assigned to the destination, the operator making no block and
\* setting no terminator.
C20_BothOperandsLowered ==
    Succeeded => \A i \in LogicOps : LowersBoth(i)

\* C20: the left operand of && and || is lowered from the block of the
\* operator; when it yields a block the right operand is lowered from that
\* block; when that yields a block too, one CheckedBinaryOp of BitAnd or BitOr
\* over the two operands is assigned to the destination there and that block
\* is returned.  An operand that diverges makes the operator return None
\* without an assignment, the right operand not lowered when it is the left
\* one.  The operator makes no block and sets no terminator.
C20_NoShortCircuit ==
    Done => \A i \in LogicOps :
        /\ StartsOperand(i, 1, i + 1, Trace[i].b)
        /\ ExitOf(i + 1) # 0 =>
              IF Trace[ExitOf(i + 1)].b = 0
              THEN /\ ReturnsNone(i, ExitOf(i + 1) + 1)
                   /\ ~Entered(Kid(Trace[i].e, 2))
              ELSE /\ StartsOperand(i, 2, ExitOf(i + 1) + 1, Trace[ExitOf(i + 1)].b)
                   /\ ExitOf(ExitOf(i + 1) + 1) # 0 =>
                         IF Trace[ExitOf(ExitOf(i + 1) + 1)].b = 0
                         THEN ReturnsNone(i, ExitOf(ExitOf(i + 1) + 1) + 1)
                         ELSE AssignsChecked(i, i + 1, ExitOf(i + 1) + 1,
                                             ExitOf(ExitOf(i + 1) + 1))

\* A returned body with an && whose left operand goes on in another block
\* than it started in, and both operands lowered.
C20_Witness ==
    /\ Succeeded
    /\ \E i \in LogicOps :
          /\ Tree(Trace[i].e).l = "And"
          /\ LowersBoth(i)
          /\ Trace[ExitOf(i + 1)].b # Trace[i].b

\* The innermost loop, while or for expression around expression e, as <<p>>,
\* or <<>> when there is none (the iterable of a for loop is outside of it).
InnermostLoop(e) ==
    LET ps == {n \in 0..(Len(e) - 1) :
                  LET x == Tree(SubSeq(e, 1, n))
                  IN  /\ x.k \in {"Loop", "While", "For"}
                      /\ x.k = "For" => e[n + 1] = 2}
    IN  IF ps = {} THEN <<>>
        ELSE <<SubSeq(e, 1, CHOOSE n \in ps : \A m \in ps : m <= n)>>

\* Event j enters an expression inside the frame of loop p.
InsideLoop(p, j) ==
    /\ Trace[j].ev = "enter"
    /\ Len(Trace[j].e) > Len(p)
    /\ IsPrefix(p, Trace[j].e)
    /\ Tree(p).k = "For" => Trace[j].e[Len(p) + 1] = 2

\* The begin block of loop p: that of the frame in which the first expression
\* inside p is entered.
BeginOf(p) ==
    Trace[CHOOSE j \in Events :
              InsideLoop(p, j) /\ \A h \in 1..(j - 1) : ~InsideLoop(p, h)].a

\* The unlabeled continue expressions entered inside a loop, while or for.
ContinuesInLoop ==
    {i \in Events : /\ IsEnter(i, "Continue")
                    /\ Tree(Trace[i].e).l = ""
                    /\ InnermostLoop(Trace[i].e) # <<>>}

\* The continue entered at event i sets Goto from its block to block begin,
\* and nothing else, and returns None.
GoesToBegin(i, begin) ==
    /\ Trace[i + 1].ev = "continue"
    /\ Trace[i + 2].ev = "set_terminator"
    /\ Trace[i + 2].b = Trace[i].b
    /\ Trace[i + 2].a = begin
    /\ Trace[i + 2].y = "Goto"
    /\ Trace[i + 3].ev = "exit"
    /\ Trace[i + 3].e = Trace[i].e
    /\ Trace[i + 3].b = 0
    /\ Trace[i + 3].w = Trace[i].w + 1
    /\ Trace[i + 3].n = Trace[i].n

\* C21 as stated: an unlabeled continue sets Goto from the current block to
\* the begin block of the innermost enclosing loop, while or for expression
\* and returns None.
C21_ContinueToLoopBegin ==
    Done => \A i \in ContinuesInLoop :
        GoesToBegin(i, BeginOf(InnermostLoop(Trace[i].e)[1]))

\* What the code does: the Goto of an unlabeled continue goes to the begin
\* block of the innermost frame, which is that of a labeled block when one
\* lies between the continue and its loop.
C21_ContinueToFrameBegin ==
    Done => \A i \in ContinuesInLoop : GoesToBegin(i, Trace[i].a)

\* A returned body with a continue inside a labeled block inside a loop.
C21_Witness ==
    /\ Succeeded
    /\ \E i \in ContinuesInLoop :
          /\ Trace[i].a # BeginOf(InnermostLoop(Trace[i].e)[1])
          /\ Terminator(Trace[i].b) = Goto(Trace[i].a)

\* The if expressions entered.
Ifs == {i \in Events : IsEnter(i, "If")}

\* Branch n of the if entered at event i starts at event j in a block made
\* for it, towards the destination of the if.
StartsBranch(i, n, j) ==
    /\ Trace[j].ev = "enter"
    /\ Trace[j].e = Kid(Trace[i].e, n)
    /\ Trace[j].x = "to_place"
    /\ Trace[j].v = Trace[i].v
    /\ Trace[j].b = Trace[j - 1].n + 1
    /\ Trace[j].n = Trace[j].b
    /\ Trace[j].w = Trace[j - 1].w

\* From event k on, the if entered at event i ends block cond in a SwitchInt
\* on the operand of its condition, 1 to block then and the rest to block
\* else, and merges the tails t1 and t2 of its branches: None, the one tail
\* there is, or a new block that both tails go to.
SwitchesAndMerges(i, k, cond, then, else, t1, t2) ==
    /\ Trace[k + 1].ev = "set_terminator"
    /\ Trace[k + 1].b = cond
    /\ Trace[k + 1].x = "None"
    /\ Trace[k + 1].y = "SwitchInt"
    /\ Terminator(cond) = SwitchInt(OperandOf(i + 1), then, else)
    /\ IF t1 # 0 /\ t2 # 0
       THEN LET bm == Trace[k + 1].n + 1
            IN  /\ Trace[k + 2].ev = "set_terminator"
                /\ Trace[k + 2].b = t1
                /\ Trace[k + 3].ev = "set_terminator"
                /\ Trace[k + 3].b = t2
                /\ Terminator(t1) = Goto(bm)
                /\ Terminator(t2) = Goto(bm)
                /\ Trace[k + 4].ev = "exit"
                /\ Trace[k + 4].e = Trace[i].e
                /\ Trace[k + 4].b = bm
                /\ Trace[k + 4].n = bm
                /\ Trace[k + 4].w = Trace[k + 1].w + 3
       ELSE /\ Trace[k + 2].ev = "exit"
            /\ Trace[k + 2].e = Trace[i].e
            /\ Trace[k + 2].b = IF t1 # 0 THEN t1 ELSE t2
            /\ Trace[k + 2].n = Trace[k + 1].n
            /\ Trace[k + 2].w = Trace[k + 1].w + 1

\* C22: when the condition of an if yields a block, that block ends in
\* SwitchInt on the condition operand, 1 to the then entry block and every
\* other value to the else entry block, both made for the if; both branches
\* are lowered to the destination of the if; the if returns None when both
\* branches diverge, the one tail when one diverges, without a new block, and
\* else a new block that both tails Goto; without an else branch the else
\* entry block is the else tail.
C22_IfBranches ==
    Done => \A i \in Ifs :
        /\ Trace[i + 1].ev = "enter"
        /\ Trace[i + 1].e = Kid(Trace[i].e, 1)
        /\ Trace[i + 1].b = Trace[i].b
        /\ (ExitOf(i + 1) # 0 /\ Trace[ExitOf(i + 1)].b # 0) =>
              LET k1 == ExitOf(i + 1)
                  k2 == ExitOf(k1 + 1)
                  k3 == ExitOf(k2 + 1)
              IN  /\ StartsBranch(i, 2, k1 + 1)
                  /\ k2 # 0 =>
                        IF Len(Tree(Trace[i].e).kids) = 3
                        THEN /\ StartsBranch(i, 3, k2 + 1)
                             /\ k3 # 0 =>
                                   SwitchesAndMerges(i, k3, Trace[k1].b, Trace[k1 + 1].b,
                                                     Trace[k2 + 1].b, Trace[k2].b,
                                                     Trace[k3].b)
                        ELSE /\ Trace[k2 + 1].n = Trace[k2].n + 1
                             /\ SwitchesAndMerges(i, k2, Trace[k1].b, Trace[k1 + 1].b,
                                                  Trace[k2].n + 1, Trace[k2].b,
                                                  Trace[k2].n + 1)

\* A returned body with an if whose condition goes on in another block than
\* it started in and whose then branch diverges, without an else branch.
C22_Witness ==
    /\ Succeeded
    /\ \E i \in Ifs :
          /\ Len(Tree(Trace[i].e).kids) = 2
          /\ ExitOf(i + 1) # 0
          /\ Trace[ExitOf(i + 1)].b \notin {0, Trace[i].b}
          /\ ExitOf(ExitOf(i + 1) + 1) # 0
          /\ Trace[ExitOf(ExitOf(i + 1) + 1)].b = 0
          /\ ExitOf(i) # 0
          /\ Trace[ExitOf(i)].b = Trace[ExitOf(i)].n

\* The while expressions entered.
WhileLoops == {i \in Events : IsEnter(i, "While")}

\* The begin block of the while entered at event i: the first block that
\* lower_loop makes.
WhileBegin(i) == Trace[i].n + 1

\* A break expression lies in the sub-tree of expression e.
HasBreak(e) == \E q \in Paths : IsPrefix(e, q) /\ Tree(q).k = "Break"

\* A break that targets the frame of the while entered at event i was lowered.
BreakLowered(i) == \E j \in Events : Trace[j].ev = "break" /\ Trace[j].a = WhileBegin(i)

\* The only edge into block end is the default edge of the SwitchInt of
\* block cb.
OnlyDefaultEdge(cb, end) ==
    /\ Terminator(cb).otherwise = end
    /\ Terminator(cb).target # end
    /\ \A a \in Blocks : Edge(a, end) => a = cb

\* At event j lower_loop returns block end for the while entered at event i,
\* and the while returns it.
ReturnsEnd(i, j, end) ==
    /\ Trace[j].ev = "lower_loop"
    /\ Trace[j].e = Trace[i].e
    /\ Trace[j].a = WhileBegin(i)
    /\ Trace[j].b = end
    /\ Trace[j + 1].ev = "exit"
    /\ Trace[j + 1].e = Trace[i].e
    /\ Trace[j + 1].b = end

\* The while entered at event i lowers its condition from its begin block;
\* when the condition yields a block at event k, that block ends in SwitchInt
\* on the condition operand, 1 to a new block where the body starts and the
\* rest to the end block of the frame; a tail block of the body ends in Goto
\* to begin; the end block is what the while returns.  only_edge tells when
\* the default edge must be the only edge into the end block.
WhileShape(i, only_edge) ==
    LET p == Trace[i].e
        begin == WhileBegin(i)
        k == ExitOf(i + 2)
        cb == Trace[k].b
        end == Trace[k + 1].f[1].end
        after_cond == Trace[k + 1].n
        k2 == ExitOf(k + 2)
        tail == Trace[k2].b
    IN  /\ Trace[i + 2].ev = "enter"
        /\ Trace[i + 2].e = Kid(p, 1)
        /\ Trace[i + 2].b = begin
        /\ Trace[i + 2].n >= begin
        /\ (k # 0 /\ cb # 0) =>
              /\ Trace[k + 1].ev = "set_terminator"
              /\ Trace[k + 1].b = cb
              /\ Trace[k + 1].y = "SwitchInt"
              /\ after_cond > Trace[k].n
              /\ end \notin {0, after_cond, begin}
              /\ Terminator(cb) = SwitchInt(OperandOf(i + 2), after_cond, end)
              /\ Trace[k + 2].ev = "enter"
              /\ Trace[k + 2].e = Kid(p, 2)
              /\ Trace[k + 2].b = after_cond
              /\ k2 # 0 =>
                    /\ IF tail # 0
                       THEN /\ Trace[k2 + 1].ev = "set_terminator"
                            /\ Trace[k2 + 1].b = tail
                            /\ Terminator(tail) = Goto(begin)
                            /\ ReturnsEnd(i, k2 + 2, end)
                       ELSE ReturnsEnd(i, k2 + 1, end)
                    /\ only_edge => OnlyDefaultEdge(cb, end)

\* C23 as stated: the condition of a while is lowered from the begin block
\* of the loop, the block holding the condition operand ends in SwitchInt, 1
\* to the body entry and the rest to the end block, the tail block of the
\* body ends in Goto to begin, the end block is what the loop returns, and
\* when the body contains no break the default edge is the only edge into
\* the end block.
C23_WhileEndOnlyByDefault ==
    Done => \A i \in WhileLoops : WhileShape(i, ~HasBreak(Kid(Trace[i].e, 2)))

\* C23: as above, but the default edge is the only edge into the end block
\* when no break that targets the frame of the loop was lowered, be it in
\* the body, in the condition, or after the loop under its label.
C23_WhileEndByDefaultOrBreak ==
    Done => \A i \in WhileLoops : WhileShape(i, ~BreakLowered(i))

\* A returned body with a while whose condition goes on in another block
\* than begin, whose body yields a tail block, and whose end block has the
\* default edge as its only edge.
C23_Witness ==
    /\ Succeeded
    /\ \E i \in WhileLoops :
          LET k == ExitOf(i + 2)
          IN  /\ k # 0
              /\ Trace[k].b \notin {0, WhileBegin(i)}
              /\ ExitOf(k + 2) # 0
              /\ Trace[ExitOf(k + 2)].b # 0
              /\ ~BreakLowered(i)
              /\ OnlyDefaultEdge(Trace[k].b, Trace[ExitOf(i)].b)

\* The labeled blocks entered.
LabeledBlocks == {i \in Events : IsEnter(i, "Block") /\ Tree(Trace[i].e).l # ""}

\* The break at path q bears the label of the labeled block at path p, lies
\* inside it, and no loop or block between them bears the same label.
TargetsBlock(p, q) ==
    /\ Tree(q).k = "Break"
    /\ Tree(q).l = Tree(p).l
    /\ Len(q) > Len(p)
    /\ IsPrefix(p, q)
    /\ \A n \in (Len(p) + 1)..(Len(q) - 1) :
          LET x == Tree(SubSeq(q, 1, n))
          IN  ~(/\ x.k \in {"Loop", "While", "For", "Block"}
                /\ x.l = Tree(p).l
                /\ x.k = "For" => q[n + 1] = 2)

\* A continue was lowered whose Goto targets block begin.
ContinueLowered(begin) ==
    \E j \in Events : Trace[j].ev = "continue" /\ Trace[j + 1].a = begin

\* The break entered at event j writes its value, when it has one, into
\* place dest and sets Goto to block end.
BreaksInto(j, dest, end) ==
    /\ Tree(Trace[j].e).kids # <<>> =>
          /\ Trace[j + 1].ev = "enter"
          /\ Trace[j + 1].e = Kid(Trace[j].e, 1)
          /\ Trace[j + 1].x = "to_place"
          /\ Trace[j + 1].v = dest
    /\ \A k \in Events :
          (Trace[k].ev = "break" /\ Trace[k].e = Trace[j].e) =>
              /\ Trace[k].b = end
              /\ Trace[k + 1].ev = "set_terminator"
              /\ Trace[k + 1].a = end
              /\ Terminator(Trace[k + 1].b) = Goto(end)

\* C24: a labeled block is lowered in a loop frame whose place is the
\* destination of the block: the previous block gets Goto to a new begin
\* block, from which the body is lowered; the tail expression is lowered into
\* the destination and the block it yields gets Goto to the end block of the
\* frame; a break that targets the block writes its value into the same
\* destination and sets Goto to the same end block; no edge of the block
\* leads back to begin; and the end block is what the block returns.
C24_LabeledBlock ==
    Done => \A i \in LabeledBlocks :
        LET p == Trace[i].e
            dest == Trace[i].v
            begin == Trace[i].n + 1
            end == Trace[i].n + 2
            t == Kid(p, Len(Tree(p).kids))
        IN  /\ Trace[i + 1].ev = "set_terminator"
            /\ Trace[i + 1].b = Trace[i].b
            /\ Trace[i + 1].a = begin
            /\ Trace[i + 1].f = <<LoopBlocks(begin, end, dest)>>
            /\ Terminator(Trace[i].b) = Goto(begin)
            /\ Trace[i + 2].ev = "enter"
            /\ Trace[i + 2].e = Kid(p, 1)
            /\ Trace[i + 2].b = begin
            /\ ~ContinueLowered(begin) =>
                  \A a \in Blocks : Edge(a, begin) => a = Trace[i].b
            /\ \A j \in Events :
                  (/\ Trace[j].ev = "enter" /\ Trace[j].e = t /\ Tree(p).u = 1) =>
                      /\ Trace[j].x = "to_place"
                      /\ Trace[j].v = dest
                      /\ (ExitOf(j) # 0 /\ Trace[ExitOf(j)].b # 0) =>
                            /\ Trace[ExitOf(j) + 1].ev = "set_terminator"
                            /\ Trace[ExitOf(j) + 1].b = Trace[ExitOf(j)].b
                            /\ Terminator(Trace[ExitOf(j)].b) = Goto(end)
            /\ \A j \in Events :
                  (Trace[j].ev = "enter" /\ TargetsBlock(p, Trace[j].e)) =>
                      BreaksInto(j, dest, end)
            /\ ExitOf(i) # 0 =>
                  /\ Trace[ExitOf(i)].b = end
                  /\ Trace[ExitOf(i) - 1].ev = "lower_loop"
                  /\ Trace[ExitOf(i) - 1].b = end

\* A returned body with a labeled block whose tail yields a block that gets
\* Goto to the end block, and in which a break targets the block from inside
\* the frame of a loop.
C24_Witness ==
    /\ Succeeded
    /\ \E i \in LabeledBlocks : \E j \in Events :
          /\ Trace[j].ev = "enter"
          /\ TargetsBlock(Trace[i].e, Trace[j].e)
          /\ Trace[j].f # Trace[i + 1].f
          /\ \E k \in Events : Trace[k].ev = "break" /\ Trace[k].e = Trace[j].e
          /\ ExitOf(i + 2) # 0
          /\ Trace[ExitOf(i + 2)].b # 0
          /\ Terminator(Trace[ExitOf(i + 2)].b) = Goto(Trace[i].n + 2)

\* The expressions that lower_expr_to_place receives with a known
\* destination, as <<e, dest>>: the root with the return slot, and the tail of
\* a block without statements with the place the block is lowered into.
LoweredInto ==
    {<<<<>>, Place(return_slot)>>}
    \cup {<<Kid(Trace[j].e, 1), Trace[j].v>> :
             j \in {i \in Events : /\ IsEnter(i, "Block")
                                   /\ Trace[i].x = "to_place"
                                   /\ Tree(Trace[i].e).u = 1
                                   /\ Len(Tree(Trace[i].e).kids) = 1}}

\* The event at which the unadjusted lowering of expression e starts.
EnterOf(e) == CHOOSE j \in Events : Trace[j].ev = "enter" /\ Trace[j].e = e

\* The unadjusted lowering of expression e yields a block.
Yields(e) == ExitOf(EnterOf(e)) # 0 /\ Trace[ExitOf(EnterOf(e))].b # 0

\* The places of the body: a local under at most two dereferences.
Places ==
    {[local |-> t, projection |-> pr] :
        t \in 0..(Len(ctx.locals) - 1),
        pr \in {<<>>, <<<<"Deref", 0>>>>, <<<<"Deref", 0>>, <<"Deref", 0>>>>}}

\* The statements that assign to place, as <<block, index>>.
AssignmentsTo(place) ==
    {s \in Blocks \X (1..ctx.writes) :
        /\ s[2] <= Len(ctx.basic_blocks[s[1]].statements)
        /\ ctx.basic_blocks[s[1]].statements[s[2]].s = "Assign"
        /\ ctx.basic_blocks[s[1]].statements[s[2]].place = place}

\* Exactly one statement assigns to place: rvalue rv, with the span of e.
OneAssigned(place, rv, e) ==
    /\ Cardinality(AssignmentsTo(place)) = 1
    /\ \A s \in AssignmentsTo(place) :
          ctx.basic_blocks[s[1]].statements[s[2]] = Assign(place, rv, e)

\* The rvalue that adjustment last makes of place p.
AdjustedRvalue(last, p) ==
    CASE last.kind = "Borrow" -> Rvalue("Ref", BorrowKind_from_chalk(last.x), <<Copy(p)>>)
      [] last.kind = "Pointer" ->
            Rvalue("Cast", "Pointer(" \o last.x \o ") as " \o last.target, <<Copy(p)>>)
      [] last.kind = "Deref" -> Use(Copy(p))

RECURSIVE Delivers(_, _, _)
RECURSIVE PlaceUnder(_, _, _)

\* Expression e under the adjustments a is lowered into place: unadjusted
\* when a is empty; else by its last adjustment: NeverToAny lowers e under
\* the earlier adjustments into a temporary of type never and place is not
\* assigned; Borrow and Pointer assign a reference to and a cast of the place
\* of e under the earlier adjustments, Deref a copy of the place of e under
\* all of a; place is not assigned when e diverges.
Delivers(e, a, place) ==
    IF a = <<>>
    THEN Trace[EnterOf(e)].x = "to_place" /\ Trace[EnterOf(e)].v = place
    ELSE IF a[Len(a)].kind = "NeverToAny"
    THEN /\ AssignmentsTo(place) = {}
         /\ \E t \in 0..(Len(ctx.locals) - 1) :
               /\ ctx.locals[t + 1] = "never"
               /\ Delivers(e, Front(a), Place(t))
    ELSE IF Yields(e)
    THEN \E p \in Places :
            /\ PlaceUnder(e, IF a[Len(a)].kind = "Deref" THEN a ELSE Front(a), p)
            /\ OneAssigned(place, AdjustedRvalue(a[Len(a)], p), e)
    ELSE AssignmentsTo(place) = {}

\* p is the place of expression e under the adjustments a: the place of e
\* when a is empty, the dereference of the place under the earlier
\* adjustments when a ends in Deref, and else a temporary that e under a is
\* lowered into.
PlaceUnder(e, a, p) ==
    IF a = <<>>
    THEN p = OperandOf(EnterOf(e)).place
    ELSE IF a[Len(a)].kind = "Deref"
    THEN /\ p.projection # <<>>
         /\ p.projection[Len(p.projection)] = <<"Deref", 0>>
         /\ PlaceUnder(e, Front(a), [p EXCEPT !.projection = Front(@)])
    ELSE /\ p.projection = <<>>
         /\ ctx.locals[p.local + 1] = "temp"
         /\ Delivers(e, a, p)

\* C25: lower_expr_to_place of an expression with the adjustments a0 .. a(n-1)
\* goes by the last one: Borrow assigns to the destination Ref of the place
\* lowered under a0 .. a(n-2), Pointer the cast to the target of a(n-1) of a
\* copy of that place, Deref a copy of the place lowered under all
\* adjustments; NeverToAny lowers under a0 .. a(n-2) into a new temporary of
\* type never and assigns nothing to the destination; without adjustments
\* the expression is lowered unadjusted into the destination.
C25_LastAdjustment ==
    Done => \A d \in LoweredInto :
        Entered(d[1]) => Delivers(d[1], Tree(d[1]).adj, d[2])

\* A returned body whose root is a block under a borrow, the tail of which is
\* a local under a dereference and then a pointer cast.
C25_Witness ==
    /\ Succeeded
    /\ Tree(<<>>).k = "Block"
    /\ Len(Tree(<<>>).adj) = 1
    /\ Tree(<<>>).adj[1].kind = "Borrow"
    /\ Len(Tree(<<1>>).adj) = 2
    /\ Tree(<<1>>).adj[1].kind = "Deref"
    /\ Tree(<<1>>).adj[2].kind = "Pointer"
    /\ Yields(<<1>>)
    /\ \E p \in Places : OneAssigned(Place(return_slot), AdjustedRvalue(Tree(<<>>).adj[1], p), <<>>)

\* The record literals entered.
RecordLits == {i \in Events : IsEnter(i, "RecordLit")}

\* The children of the record literal at path p that are fields: all but the
\* spread base.
FieldsOf(p) ==
    {k \in 1..Len(Tree(p).kids) : Tree(Kid(p, k)).k = "Field"}

\* The expression of child k of the record literal at path p: the spread
\* base, or the value of a field.
PartOf(p, k) == IF k \in FieldsOf(p) THEN Kid(Kid(p, k), 1) ELSE Kid(p, k)

\* The children before child k of the record literal at path p have been
\* lowered, and each has yielded a block.
PartsBefore(p, k) ==
    \A j \in 1..(k - 1) : Entered(PartOf(p, j)) /\ Yields(PartOf(p, j))

\* Operand i of the aggregate of the record literal at path p: the operand
\* of the field with declared index i, or a copy of field i of the spread base.
FieldOperand(p, i) ==
    IF \E k \in FieldsOf(p) : Tree(Kid(p, k)).u = i
    THEN OperandOf(EnterOf(PartOf(p, CHOOSE k \in FieldsOf(p) : Tree(Kid(p, k)).u = i)))
    ELSE Copy([OperandOf(EnterOf(Kid(p, 1))).place EXCEPT
                  !.projection = Append(@, <<"Field", i - 1>>)])

\* C26: the aggregate of a record literal has one operand per declared field,
\* in declared order: the operand lowered from the field of the literal with
\* that declared index, wherever it is written, or a copy of that field of
\* the spread base when the literal omits it; a literal that omits a field
\* and has no spread base fails with TypeError, and a field that the variant
\* does not declare fails with UnresolvedField.
C26_RecordLitOperands ==
    Done => \A i \in RecordLits :
        LET p == Trace[i].e
            n == Len(Tree(p).kids)
            declared == 1..Tree(p).u
            undeclared == {k \in FieldsOf(p) : Tree(Kid(p, k)).u = 0}
            omitted == {d \in declared : \A k \in FieldsOf(p) : Tree(Kid(p, k)).u # d}
        IN  /\ \A k \in undeclared :
                  (PartsBefore(p, k) /\ \A j \in 1..(k - 1) : j \notin undeclared)
                  => /\ result.err = "UnresolvedField"
                     /\ ~Entered(PartOf(p, k))
            /\ (undeclared = {} /\ PartsBefore(p, n + 1)) =>
                  IF omitted # {} /\ Tree(p).l # "Spread"
                  THEN /\ result.err = "TypeError(missing field in record literal)"
                       /\ AssignmentsOf(p) = {}
                  ELSE /\ Cardinality(AssignmentsOf(p)) = 1
                       /\ \A s \in AssignmentsOf(p) :
                             ctx.basic_blocks[s[1]].statements[s[2]] =
                                 Assign(Trace[i].v,
                                        Rvalue("Aggregate", "Adt",
                                               [d \in declared |-> FieldOperand(p, d)]),
                                        p)

\* A returned body with a record literal that writes its second field only,
\* takes the other from a spread base, and whose aggregate has the copy of
\* the field of the base first and the operand of the written field second.
C26_Witness ==
    /\ Succeeded
    /\ \E i \in RecordLits :
          LET p == Trace[i].e
          IN  /\ Tree(p).l = "Spread"
              /\ Len(Tree(p).kids) = 2
              /\ Tree(Kid(p, 2)).u = 2
              /\ \E s \in AssignmentsOf(p) :
                    /\ ctx.basic_blocks[s[1]].statements[s[2]].rv.ops[1].place.projection
                           = <<<<"Field", 0>>>>
                    /\ ctx.basic_blocks[s[1]].statements[s[2]].rv.ops[2]
                           = OperandOf(EnterOf(PartOf(p, 2)))

\* The applications of set_terminator, set_goto included.
SetTerminators == {i \in Events : Trace[i].ev = "set_terminator"}

\* C27: set_terminator and set_goto are only applied to a block whose
\* terminator is still None, so that no terminator is ever overwritten, and
\* a terminator once set is the terminator of the block in the end.
C27_TerminatorSetOnce ==
    \A i \in SetTerminators :
        /\ Trace[i].x = "None"
        /\ \A j \in SetTerminators : Trace[j].b = Trace[i].b => j = i
        /\ Done => /\ Terminator(Trace[i].b).t = Trace[i].y
                   /\ Terminator(Trace[i].b).target = Trace[i].a

\* A returned body in which merge_blocks joins two blocks with Goto to one
\* new block, after a SwitchInt was set.
C27_Witness ==
    /\ Succeeded
    /\ \E i, j, k \in SetTerminators :
          /\ i < j
          /\ Trace[i].a = Trace[j].a
          /\ Trace[i].y = "Goto"
          /\ Trace[j].y = "Goto"
          /\ Trace[j].n = Trace[i].n
          /\ Trace[k].y = "SwitchInt"

\* The frames that exist at event i: the current one and those under a label.
FramesAt(i) ==
    {Trace[i].f[n] : n \in DOMAIN Trace[i].f}
    \cup {Trace[i].m[l] : l \in DOMAIN Trace[i].m}

\* The frames that lower_loop made, as they were at any event.
AllFrames == UNION {FramesAt(i) : i \in Events}

\* The Gotos that break expressions set: event k names the frame (by its
\* begin block) and the end block, event k + 1 sets the terminator.
BreakGotos == {k \in Events : Trace[k].ev = "break"}

\* C28: the breaks that target one frame, with or without label and from
\* inside nested frames, all set Goto to one end block: the end block of a
\* frame is allocated at most once, the frame keeps it while nested frames
\* are pushed and popped, and it is the block that lower_loop returns.
C28_OneEndPerFrame ==
    Done =>
        /\ \A fr1, fr2 \in AllFrames :
              (fr1.begin = fr2.begin /\ fr1.end # 0 /\ fr2.end # 0) => fr1.end = fr2.end
        /\ \A i, j \in Events :
              (/\ i < j
               /\ Trace[i].f # <<>>
               /\ Trace[j].f # <<>>
               /\ Trace[i].f[1].begin = Trace[j].f[1].begin)
              => (Trace[i].f[1].end # 0 => Trace[j].f[1].end = Trace[i].f[1].end)
        /\ \A k \in BreakGotos :
              /\ Trace[k].b # 0
              /\ Trace[k + 1].ev = "set_terminator"
              /\ Terminator(Trace[k + 1].b) = Goto(Trace[k].b)
              /\ \A fr \in AllFrames :
                    (fr.begin = Trace[k].a /\ fr.end # 0) => fr.end = Trace[k].b
              /\ \A k2 \in BreakGotos : Trace[k2].a = Trace[k].a => Trace[k2].b = Trace[k].b
              /\ \A j \in Events :
                    (Trace[j].ev = "lower_loop" /\ Trace[j].a = Trace[k].a)
                    => Trace[j].b = Trace[k].b
        /\ \A j \in Events :
              Trace[j].ev = "lower_loop" =>
                  \A fr \in AllFrames :
                      fr.begin = Trace[j].a =>
                          (fr.end # 0 => Trace[j].b = fr.end)

\* A returned body in which a labeled break inside a nested loop and, after
\* that loop was left, a break without label target the same frame, which
\* returns the end block of both.
C28_Witness ==
    /\ Succeeded
    /\ \E k1, k2 \in BreakGotos : \E j \in Events :
          /\ k1 < k2
          /\ Trace[k1].a = Trace[k2].a
          /\ Trace[k1].x # ""
          /\ Trace[k2].x = ""
          /\ Trace[k1].f # Trace[k2].f
          /\ Trace[k1].f[1].begin # Trace[k1].a
          /\ Trace[j].ev = "lower_loop"
          /\ Trace[j].a = Trace[k1].a
          /\ j > k2
          /\ Trace[j].b = Trace[k2].b
          /\ Terminator(Trace[k1 + 1].b) = Terminator(Trace[k2 + 1].b)

\* The breaks with a label that take their end block from labeled_loop_blocks.
LabeledBreakGotos == {k \in BreakGotos : Trace[k].x # ""}

\* C29: every frame in labeled_loop_blocks has its end block, and is the
\* frame it was copied from, end block included, whenever that frame is the
\* current one; so that a break with a label never finds a frame without end
\* block, and lower_loop never finds current_loop_blocks empty when it takes
\* its frame back.
C29_LabeledFramesHaveEnd ==
    /\ \A i \in Events : \A l \in DOMAIN Trace[i].m :
          /\ Trace[i].m[l].end # 0
          /\ \A j \in Events :
                (Trace[j].f # <<>> /\ Trace[j].f[1].begin = Trace[i].m[l].begin)
                => Trace[j].f[1] = Trace[i].m[l]
    /\ \A l \in DOMAIN ctx.labeled_loop_blocks : ctx.labeled_loop_blocks[l].end # 0
    /\ \A k \in LabeledBreakGotos : Trace[k].b = Trace[k].m[Trace[k].x].end
    /\ result.err \notin {"panic(We always generate end for labeled loops)",
                          "ImplementationError(current_loop_blocks is corrupt)"}

\* A returned body in which a break takes the end block of a labeled frame
\* from labeled_loop_blocks while another frame is the current one.
C29_Witness ==
    /\ Succeeded
    /\ \E k \in LabeledBreakGotos :
          /\ Trace[k].f # <<>>
          /\ Trace[k].f[1] # Trace[k].m[Trace[k].x]
          /\ Trace[k].b = Trace[k].m[Trace[k].x].end
          /\ \E j \in Events : j < k /\ Trace[j].f = <<Trace[k].m[Trace[k].x]>>

\* The returns of lower_loop for a loop or block with a label.
LabeledLoopReturns == {j \in Events : Trace[j].ev = "lower_loop" /\ Trace[j].x # ""}

\* C30 as stated: when lower_loop returns for a loop or block with a label,
\* labeled_loop_blocks is the map it was before the call, a label that
\* shadowed nothing being removed again.
C30_LabelMapRestored ==
    Done => \A j \in LabeledLoopReturns : Trace[j].m = BeforeLoop(j).m

\* What lower_loop leaves: the map before the call when the label was in
\* it, and else that map with the frame of the finished loop under the label.
C30_LabelStaysInMap ==
    Done => \A j \in LabeledLoopReturns :
        IF Trace[j].x \in DOMAIN BeforeLoop(j).m
        THEN Trace[j].m = BeforeLoop(j).m
        ELSE /\ DOMAIN Trace[j].m = DOMAIN BeforeLoop(j).m \cup {Trace[j].x}
             /\ Trace[j].m[Trace[j].x].begin = Trace[j].a
             /\ \A l \in DOMAIN BeforeLoop(j).m : Trace[j].m[l] = BeforeLoop(j).m[l]

\* A returned body in which a labeled loop that shadowed nothing has
\* returned and its frame is still under the label.
C30_Witness ==
    /\ Succeeded
    /\ \E j \in LabeledLoopReturns :
          /\ Trace[j].x \notin DOMAIN BeforeLoop(j).m
          /\ Trace[j].b # 0
          /\ Trace[j].x \in DOMAIN ctx.labeled_loop_blocks
          /\ ctx.labeled_loop_blocks[Trace[j].x].begin = Trace[j].a

====
